---- MODULE Spec2Model ----
(***************************************************************************)
(* The Linux V4 key extractor of chatlog (internal/wechat/key/linux/v4.go, *)
(* the direct /proc/<pid>/mem variant, lines 1-442) as a state machine:    *)
(* Extract, its producer (findMemory), its workers, the goroutine that     *)
(* closes the result channel, and the caller's context.                    *)
(*                                                                         *)
(* Bytes are naturals 0..255 and a []byte is a sequence of them.  A Go     *)
(* string is modelled as the sequence of its characters, so "" is << >>.   *)
(* A uint64 is the sequence of its eight base-256 digits, most significant *)
(* first, so that values up to 2^64 can be compared digit by digit.        *)
(***************************************************************************)
EXTENDS Integers, Sequences, FiniteSets, TLC

VARIABLES
    proc,           \* *model.Process handed to Extract: [PID, Status]
    page,           \* the database first page behind e.validator
    numCPU,         \* runtime.NumCPU()
    maps,           \* /proc/<pid>/maps: [readable, lines]
    ctxDone,        \* the caller's ctx has been cancelled
    e,              \* the V4Extractor: [currentPID, memFile, memFileMutex]
    pc,             \* position of the goroutine running Extract
    ret,            \* what Extract returned: [key, err]
    searchCancel,   \* cancel() of searchCtx has been called
    memoryChannel,  \* [buf: queued buffers, closed]
    resultChannel,  \* [buf: queued keys, closed]
    prod,           \* the producer goroutine (findMemory)
    wk,             \* the worker goroutines, 1..workerCount once started
    tk,             \* a run of the testkey tool: [pc, tool, page, key, ...]
    dk,             \* a run of dumpkey of the Linux tool: [pc, attached, ...]
    sk,             \* a call of SearchKey: [pc, memory, ...]
    cron            \* the cron service and its cron.Cron: [entries, entryIDs, ...]

vars == <<proc, page, numCPU, maps, ctxDone, e, pc, ret, searchCancel,
          memoryChannel, resultChannel, prod, wk, tk, dk, sk, cron>>

----------------------------------------------------------------------------
(* Program constants *)

MaxWorkers == 16
MinRegionSize == 1048576
ChannelBuffer == 200
BatchValidateSize == 8
MaxRetryAttempts == 3

StatusOffline == "offline"
StatusOnline == "online"

ErrNil == "nil"
ErrWeChatOffline == "ErrWeChatOffline"
ErrNoValidKey == "ErrNoValidKey"
ErrNoMemoryRegionsFound == "ErrNoMemoryRegionsFound"
ErrInitMemoryFile == "failed to initialize memory file"
ErrRunCmdFailed == "RunCmdFailed"
ErrReadMemoryFailed == "ReadMemoryFailed"
ErrCanceled == "context canceled"
ErrDatabaseNotEncrypted == "DatabaseNotEncrypted"

NilFile == [open |-> FALSE, pid |-> 0]

\* a sync.RWMutex nobody holds; writer: Lock() has been called
FreeMutex == [readers |-> {}, writer |-> FALSE]

----------------------------------------------------------------------------
(* Bounds of the model *)

\* longest /proc/<pid>/maps file, in lines
MaxLines == 2
\* largest runtime.NumCPU()
MaxCPU == 2
\* largest runtime.NumCPU() where only the start of the goroutines is followed
MaxCount == 20
\* longest maps file where the producer and the channel are followed
MaxScanLines == 2
\* length of the maps file that fills the channel
LongLines == 201
\* longest maps file where the sweep of the buffers is followed
MaxSweepLines == 2

----------------------------------------------------------------------------
(* Bytes, uint64 and strings *)

Zeros(n) == [i \in 1..n |-> 0]

Reverse(s) == [i \in 1..Len(s) |-> s[Len(s) + 1 - i]]

\* binary.LittleEndian.Uint64: b[0] is the least significant digit
littleEndianFunc(b) == Reverse(b)

\* a > b for two uint64 values
U64Gt(a, b) ==
    \E i \in 1..8 : a[i] > b[i] /\ \A j \in 1..(i - 1) : a[j] = b[j]

\* 0x10000 and 0x7FFFFFFFFFFF
PtrLow == <<0, 0, 0, 0, 0, 1, 0, 0>>
PtrHigh == <<0, 0, 127, 255, 255, 255, 255, 255>>

HexDigits == <<"0", "1", "2", "3", "4", "5", "6", "7",
               "8", "9", "a", "b", "c", "d", "e", "f">>

\* hex.EncodeToString: two lowercase digits per byte, high nibble first
EncodeToString(b) ==
    [i \in 1..(2 * Len(b)) |->
        IF i % 2 = 1 THEN HexDigits[(b[(i + 1) \div 2] \div 16) + 1]
                     ELSE HexDigits[(b[i \div 2] % 16) + 1]]

keyPattern == Zeros(8) \o <<32>> \o Zeros(7) \o <<47>> \o Zeros(7)
ptrSize == 8

\* sep occurs in s at 0-based index i
OccursAt(s, sep, i) == \A j \in 1..Len(sep) : s[i + j] = sep[j]

\* bytes.LastIndex(s, sep): 0-based index of the last occurrence, or -1
LastIndex(s, sep) ==
    LET last == Len(s) - Len(sep)
        from[i \in -1..last] ==
            IF i < 0 THEN -1
            ELSE IF OccursAt(s, sep, i) THEN i
            ELSE from[i - 1]
    IN  IF last < 0 THEN -1 ELSE from[last]

\* strings.Contains
Contains(s, substr) == LastIndex(s, substr) # -1

----------------------------------------------------------------------------
(* The target process and the database page *)

\* the 32 bytes the database was encrypted with, and 32 other bytes
TrueKey == [i \in 1..32 |-> (i * 29 + 171) % 256]
JunkKey == [i \in 1..32 |-> 255 - i]

\* addresses in the target: 0x20000 and 0x30000 are mapped, 0x40000 is not
AddrKey == <<0, 0, 0, 0, 0, 2, 0, 0>>
AddrJunk == <<0, 0, 0, 0, 0, 3, 0, 0>>
AddrFault == <<0, 0, 0, 0, 0, 4, 0, 0>>
\* 0x50000 holds the key too, but the first read of it comes back short
AddrFlaky == <<0, 0, 0, 0, 0, 5, 0, 0>>

\* ReadAt(data, address) for len(data) = size on the open /proc/<pid>/mem:
\* [n, data]; an unmapped address reads nothing
ReadAt(pid, address, size) ==
    IF address = AddrKey THEN [n |-> size, data |-> SubSeq(TrueKey, 1, size)]
    ELSE IF address = AddrJunk THEN [n |-> size, data |-> SubSeq(JunkKey, 1, size)]
    ELSE IF address = AddrFlaky
         THEN [n |-> size \div 2, data |-> SubSeq(TrueKey, 1, size \div 2)]
    ELSE [n |-> 0, data |-> << >>]

\* the same ReadAt called once more, as call number attempt (from 0) on the
\* address: what was short at first is read in full from the second call on
ReadAtRetry(pid, address, size, attempt) ==
    IF address = AddrFlaky /\ attempt > 0
    THEN [n |-> size, data |-> SubSeq(TrueKey, 1, size)]
    ELSE ReadAt(pid, address, size)

\* decrypt.Validator.Validate for the validator built from first page pg:
\* true exactly for the key the page's HMAC was made with; a page whose salt
\* is all zero validates nothing
Validate(pg, keyData) == ~pg.saltZero /\ keyData = pg.key

Pages == {[saltZero |-> z, key |-> TrueKey] : z \in BOOLEAN}

\* the 8 bytes of a pointer as they lie in memory, followed by the pattern
Anchor(address) == Reverse(address) \o keyPattern

\* region contents: one anchor whose pointer leads to the key
BufKey == <<1, 2, 3>> \o Anchor(AddrKey) \o <<9>>
\* anchors whose pointers lead to other bytes and to an unmapped address
BufJunk == Anchor(AddrFault) \o <<7>> \o Anchor(AddrJunk)
\* the pattern nowhere
BufNone == <<0, 32, 0, 47, 0, 0, 0, 0, 0, 0, 0, 0>>

RECURSIVE Repeat(_, _)
Repeat(s, n) == IF n = 0 THEN << >> ELSE s \o Repeat(s, n - 1)

\* the key's anchor first, BatchValidateSize more anchors behind it
BufMany == Anchor(AddrKey) \o Repeat(Anchor(AddrJunk), BatchValidateSize)

rw == <<"r", "w", "-", "p">>
PathHeap == <<"[", "h", "e", "a", "p", "]">>
PathStack == <<"[", "s", "t", "a", "c", "k", "]">>
PathNone == << >>

\* kinds of mapping a target may have: the fields of its maps line, and what
\* reading the range yields (ok = FALSE: the read fails)
Mappings ==
    { [perms |-> rw, pathname |-> PathHeap, size |-> 2 * MinRegionSize,
       ok |-> TRUE, data |-> BufKey],
      [perms |-> rw, pathname |-> PathNone, size |-> MinRegionSize,
       ok |-> TRUE, data |-> BufJunk],
      [perms |-> rw, pathname |-> PathNone, size |-> 4 * MinRegionSize,
       ok |-> FALSE, data |-> << >>],
      [perms |-> rw, pathname |-> PathStack, size |-> 8 * MinRegionSize,
       ok |-> TRUE, data |-> BufKey],
      [perms |-> rw, pathname |-> PathHeap, size |-> MinRegionSize,
       ok |-> TRUE, data |-> BufMany],
      [perms |-> rw, pathname |-> PathNone, size |-> 3 * MinRegionSize,
       ok |-> TRUE, data |-> BufNone] }

\* mappings lie 256 MiB apart, in file order
LineOf(m, i) ==
    [start |-> i * 268435456, end |-> i * 268435456 + m.size,
     perms |-> m.perms, pathname |-> m.pathname, ok |-> m.ok, data |-> m.data]

MapsFiles ==
    UNION { { [i \in 1..n |-> LineOf(f[i], i)] : f \in [1..n -> Mappings] }
            : n \in 0..MaxLines }

----------------------------------------------------------------------------
(* glance/vmmap.go *)

\* the region LoadVmmap builds from one parsed line
RegionOf(line) ==
    [RegionType |->
        IF line.pathname = << >> THEN "[anonymous]"
        ELSE IF Contains(line.pathname, PathHeap) THEN "[heap]"
        ELSE IF Contains(line.pathname, PathStack) THEN "[stack]"
        ELSE IF Contains(line.pathname, <<".", "s", "o">>) THEN "[library]"
        ELSE "[mapped]",
     Start |-> line.start, End |-> line.end, VSize |-> line.end - line.start,
     Permissions |-> line.perms, RegionDetail |-> line.pathname,
     ok |-> line.ok, data |-> line.data]

\* the test of lines 75-77: a line without "w" in its permissions is skipped
Writable(line) == Contains(line.perms, <<"w">>)

\* a slip: each region is put in front of those found before
LoadVmmapReversed(lines) ==
    LET kept == SelectSeq(lines, Writable)
    IN  [i \in 1..Len(kept) |-> RegionOf(kept[Len(kept) + 1 - i])]

\* LoadVmmap: the loop over the lines, appending a region per line kept
LoadVmmap(lines) ==
    LET kept == SelectSeq(lines, Writable)
    IN  [i \in 1..Len(kept) |-> RegionOf(kept[i])]

\* GetVmmap: [regions, err]
GetVmmap(m) ==
    IF ~m.readable THEN [regions |-> << >>, err |-> ErrRunCmdFailed]
    ELSE [regions |-> LoadVmmap(m.lines), err |-> ErrNil]

----------------------------------------------------------------------------
(* v4.go: pure parts *)

\* a slip: a region of exactly MinRegionSize is dropped too
FilterKeepsAbove(region) ==
    IF region.VSize <= MinRegionSize THEN FALSE
    ELSE IF region.RegionType \in {"[heap]", "[anonymous]"} THEN TRUE
    ELSE IF region.RegionType = "[mapped]"
         THEN Contains(region.Permissions, <<"w">>)
    ELSE FALSE

\* a slip: the stack is scanned as well
FilterKeepsStack(region) ==
    IF region.VSize < MinRegionSize THEN FALSE
    ELSE IF region.RegionType \in {"[heap]", "[anonymous]", "[stack]"} THEN TRUE
    ELSE IF region.RegionType = "[mapped]"
         THEN Contains(region.Permissions, <<"w">>)
    ELSE FALSE

\* the body of the loop of filterMemoryRegions: the region is appended
FilterKeeps(region) ==
    IF region.VSize < MinRegionSize THEN FALSE
    ELSE IF region.RegionType \in {"[heap]", "[anonymous]"} THEN TRUE
    ELSE IF region.RegionType = "[mapped]"
         THEN Contains(region.Permissions, <<"w">>)
    ELSE FALSE

\* filterMemoryRegions: the loop over the regions, in their order
filterMemoryRegions(regions) == SelectSeq(regions, FilterKeeps)

\* readMemoryRegion (Glance.Read of the one region): [data, err]
readMemoryRegion(region) ==
    IF region.ok THEN [data |-> region.data, err |-> ErrNil]
    ELSE [data |-> << >>, err |-> ErrReadMemoryFailed]

\* a slip: the two bounds themselves are accepted
PtrAcceptedInclusive(ptrValue) ==
    ~U64Gt(PtrLow, ptrValue) /\ ~U64Gt(ptrValue, PtrHigh)

\* the range test of findCandidatePointers
PtrAccepted(ptrValue) == U64Gt(ptrValue, PtrLow) /\ U64Gt(PtrHigh, ptrValue)

\* a slip: the loop ends only when the pattern is not found; for a match
\* with fewer than ptrSize bytes before it the slice starts below the buffer
findCandidateLoopNoGuard(memory) ==
    LET loop[st \in [index : 0..Len(memory), candidates : Seq(Seq(0..255)),
                     slices : Seq(Int)]] ==
            LET found == LastIndex(SubSeq(memory, 1, st.index), keyPattern)
            IN  IF found = -1 THEN st
                ELSE IF found - ptrSize < 0
                     THEN [st EXCEPT !.slices = Append(@, found - ptrSize)]
                ELSE LET ptrValue ==
                             littleEndianFunc(SubSeq(memory, found - ptrSize + 1, found))
                         slices == Append(st.slices, found - ptrSize)
                     IN  IF PtrAccepted(ptrValue)
                         THEN IF Len(st.candidates) + 1 >= BatchValidateSize
                              THEN [index |-> found,
                                    candidates |-> Append(st.candidates, ptrValue),
                                    slices |-> slices]
                              ELSE loop[[index |-> found - 1,
                                         candidates |-> Append(st.candidates, ptrValue),
                                         slices |-> slices]]
                         ELSE loop[[index |-> found - 1,
                                    candidates |-> st.candidates,
                                    slices |-> slices]]
    IN  loop[[index |-> Len(memory), candidates |-> << >>, slices |-> << >>]]

\* the for loop of findCandidatePointers: loop[st] is the rest of the loop
\* from the state st on, and its value the state the loop ends in; slices
\* lists the offsets lo of the slices memory[lo : lo+ptrSize] it has taken
findCandidateLoop(memory) ==
    LET loop[st \in [index : 0..Len(memory), candidates : Seq(Seq(0..255)),
                     slices : Seq(Int)]] ==
            LET found == LastIndex(SubSeq(memory, 1, st.index), keyPattern)
            IN  IF found = -1 \/ found - ptrSize < 0 THEN st
                ELSE LET ptrValue ==
                             littleEndianFunc(SubSeq(memory, found - ptrSize + 1, found))
                         slices == Append(st.slices, found - ptrSize)
                     IN  IF PtrAccepted(ptrValue)
                         THEN IF Len(st.candidates) + 1 >= BatchValidateSize
                              THEN [index |-> found,
                                    candidates |-> Append(st.candidates, ptrValue),
                                    slices |-> slices]
                              ELSE loop[[index |-> found - 1,
                                         candidates |-> Append(st.candidates, ptrValue),
                                         slices |-> slices]]
                         ELSE loop[[index |-> found - 1,
                                    candidates |-> st.candidates,
                                    slices |-> slices]]
    IN  loop[[index |-> Len(memory), candidates |-> << >>, slices |-> << >>]]

\* findCandidatePointers: the candidates the loop has collected
findCandidatePointers(memory) == findCandidateLoop(memory).candidates

\* readMemoryAtAddress, the lock aside: [data, err]; tries[attempt] is the
\* rest of the retry loop from that attempt on
readMemoryAtAddress(file, address, size) ==
    LET tries[attempt \in 0..MaxRetryAttempts] ==
            IF attempt >= MaxRetryAttempts
            THEN [data |-> << >>, err |-> "failed to read memory"]
            ELSE LET r == ReadAtRetry(file.pid, address, size, attempt)
                 IN  IF r.n = size THEN [data |-> r.data, err |-> ErrNil]
                     ELSE tries[attempt + 1]
    IN  IF file = NilFile
        THEN [data |-> << >>, err |-> "memory file not initialized"]
        ELSE tries[0]

\* readMemoryAtAddressUnsafe: [data, err]
readMemoryAtAddressUnsafe(file, address, size) ==
    LET r == ReadAt(file.pid, address, size)
    IN  IF r.n # size THEN [data |-> << >>, err |-> "read failed"]
        ELSE [data |-> r.data, err |-> ErrNil]

\* a slip: one failed read empties the map
batchReadMemoryAllOrNothing(file, candidates, keySize) ==
    IF file = NilFile THEN {}
    ELSE IF \E j \in 1..Len(candidates) :
                readMemoryAtAddressUnsafe(file, candidates[j], keySize).err # ErrNil
         THEN {}
    ELSE { [addr |-> candidates[i],
            data |-> readMemoryAtAddressUnsafe(file, candidates[i], keySize).data] :
           i \in 1..Len(candidates) }

\* batchReadMemory: the map address -> data as a set of its entries
batchReadMemory(file, candidates, keySize) ==
    IF file = NilFile THEN {}
    ELSE { [addr |-> candidates[i],
            data |-> readMemoryAtAddressUnsafe(file, candidates[i], keySize).data] :
           i \in { j \in 1..Len(candidates) :
                     readMemoryAtAddressUnsafe(file, candidates[j], keySize).err = ErrNil } }

\* a slip: the cap at MaxWorkers is left out
WorkerCountNoCap(n) == IF n < 2 THEN 2 ELSE n

\* workerCount of Extract
WorkerCount(n) ==
    LET atLeast == IF n < 2 THEN 2 ELSE n
    IN  IF atLeast > MaxWorkers THEN MaxWorkers ELSE atLeast

\* a slip: the status compared with the wrong constant
IsOfflineWrongStatus(p) == p.Status = "Offline"

\* the offline test that opens Extract
IsOffline(p) == p.Status = StatusOffline

\* a slip: the received value returned without looking at ok or at ""
ResultOfUnchecked(result, ok) == [key |-> result, err |-> ErrNil]

\* what Extract returns for a receive (result, ok) from resultChannel
ResultOf(result, ok) ==
    IF ok /\ result # << >> THEN [key |-> result, err |-> ErrNil]
    ELSE [key |-> << >>, err |-> ErrNoValidKey]

\* a slip: the bytes read are returned without asking the validator
KeyOfUnvalidated(pg, keyData) == EncodeToString(keyData)

\* one iteration of the loop of batchValidateKeys: the key, or "" to go on
KeyOf(pg, keyData) ==
    IF Validate(pg, keyData) THEN EncodeToString(keyData) ELSE << >>

----------------------------------------------------------------------------
(* State *)

NoReturn == [key |-> << >>, err |-> "pending"]
IdleProducer == [pc |-> "idle", regions |-> << >>, i |-> 0, memory |-> << >>,
                 err |-> ErrNil]
FreshWorker == [pc |-> "recv", candidates |-> << >>, keyDataMap |-> {},
                key |-> << >>]

\* the testkey tool is not running
IdleTool == [pc |-> "idle"]

\* dumpkey has not been called
IdleDump == [pc |-> "idle"]

\* SearchKey has not been called
IdleSearch == [pc |-> "idle"]

\* NewService and the package's entryIDs, with s.c taken to be a cron.Cron
\* as cron.New() makes it: no entry, not running.  stopped: Stop was the
\* last call made on the service
NewService == [entries |-> {}, nextID |-> 0, running |-> FALSE,
               entryIDs |-> << >>, fired |-> {}, stopped |-> FALSE]

NewV4Extractor ==
    [currentPID |-> 0, memFile |-> NilFile, memFileMutex |-> FreeMutex]

Workers == DOMAIN wk

\* searchCtx.Done() is ready: the parent was cancelled or cancel() was called
SearchDone == ctxDone \/ searchCancel

Init ==
    /\ proc \in [PID : {4242}, Status : {StatusOnline, StatusOffline}]
    /\ page \in Pages
    /\ numCPU \in 1..MaxCPU
    /\ maps \in [readable : BOOLEAN, lines : MapsFiles]
    /\ ctxDone \in BOOLEAN
    /\ e = NewV4Extractor
    /\ pc = "start"
    /\ ret = NoReturn
    /\ searchCancel = FALSE
    /\ memoryChannel = [buf |-> << >>, closed |-> FALSE]
    /\ resultChannel = [buf |-> << >>, closed |-> FALSE]
    /\ prod = IdleProducer
    /\ wk = << >>
    /\ tk = IdleTool
    /\ dk = IdleDump
    /\ sk = IdleSearch
    /\ cron = NewService

----------------------------------------------------------------------------
(* The caller *)

\* the caller cancels ctx while Extract has not yet chosen what to return
Cancel ==
    /\ ~ctxDone
    /\ pc \in {"start", "init", "spawn", "select"}
    /\ ctxDone' = TRUE
    /\ UNCHANGED <<cron, sk, dk, tk, proc, page, numCPU, maps, e, pc, ret, searchCancel,
                   memoryChannel, resultChannel, prod, wk>>

----------------------------------------------------------------------------
(* Extract *)

\* lines 42-47: the offline test, then e.currentPID
ExtractBegin ==
    /\ pc = "start"
    /\ IF IsOffline(proc)
       THEN /\ ret' = [key |-> << >>, err |-> ErrWeChatOffline]
            /\ pc' = "returned"
            /\ e' = e
       ELSE /\ e' = [e EXCEPT !.currentPID = proc.PID]
            /\ pc' = "init"
            /\ ret' = ret
    /\ UNCHANGED <<cron, sk, dk, tk, proc, page, numCPU, maps, ctxDone, searchCancel,
                   memoryChannel, resultChannel, prod, wk>>

\* lines 48-51: initMemoryFile; opening /proc/<pid>/mem may fail
ExtractInit ==
    /\ pc = "init"
    /\ e.memFileMutex = FreeMutex
    /\ IF e.memFile # NilFile
       THEN pc' = "spawn" /\ UNCHANGED <<e, ret>>
       ELSE \E opened \in BOOLEAN :
               IF opened
               THEN /\ e' = [e EXCEPT !.memFile =
                                [open |-> TRUE, pid |-> e.currentPID]]
                    /\ pc' = "spawn"
                    /\ ret' = ret
               ELSE /\ ret' = [key |-> << >>, err |-> ErrInitMemoryFile]
                    /\ pc' = "returned"
                    /\ e' = e
    /\ UNCHANGED <<cron, sk, dk, tk, proc, page, numCPU, maps, ctxDone, searchCancel,
                   memoryChannel, resultChannel, prod, wk>>

\* lines 53-98: searchCtx, the channels, the workers, the producer
ExtractSpawn ==
    /\ pc = "spawn"
    /\ wk' = [w \in 1..WorkerCount(numCPU) |-> FreshWorker]
    /\ prod' = [IdleProducer EXCEPT !.pc = "start"]
    /\ pc' = "select"
    /\ UNCHANGED <<cron, sk, dk, tk, proc, page, numCPU, maps, ctxDone, e, ret, searchCancel,
                   memoryChannel, resultChannel>>

\* case <-ctx.Done() of the select
SelectCtxDone ==
    /\ ctxDone
    /\ ret' = [key |-> << >>, err |-> ErrCanceled]
    /\ resultChannel' = resultChannel

\* case result, ok := <-resultChannel of the select
SelectResult ==
    \/ /\ resultChannel.buf # << >>
       /\ ret' = ResultOf(Head(resultChannel.buf), TRUE)
       /\ resultChannel' = [resultChannel EXCEPT !.buf = Tail(@)]
    \/ /\ resultChannel.buf = << >>
       /\ resultChannel.closed
       /\ ret' = ResultOf(<< >>, FALSE)
       /\ resultChannel' = resultChannel

\* a slip: Extract waits for the result alone
SelectResultOnly ==
    /\ pc = "select"
    /\ SelectResult
    /\ pc' = "deferCancel"
    /\ UNCHANGED <<cron, sk, dk, tk, proc, page, numCPU, maps, ctxDone, e, searchCancel,
                   memoryChannel, prod, wk>>

\* lines 101-110: the select; any ready case may be taken
ExtractSelect ==
    /\ pc = "select"
    /\ (SelectCtxDone \/ SelectResult)
    /\ pc' = "deferCancel"
    /\ UNCHANGED <<cron, sk, dk, tk, proc, page, numCPU, maps, ctxDone, e, searchCancel,
                   memoryChannel, prod, wk>>

\* a slip: the cancel function of searchCtx is dropped, not deferred
ExtractDeferNoCancel ==
    /\ pc = "deferCancel"
    /\ pc' = "deferClose"
    /\ UNCHANGED <<cron, sk, dk, tk, proc, page, numCPU, maps, ctxDone, e, ret, searchCancel,
                   memoryChannel, resultChannel, prod, wk>>

\* line 55: the deferred cancel()
ExtractDeferCancel ==
    /\ pc = "deferCancel"
    /\ searchCancel' = TRUE
    /\ pc' = "deferClose"
    /\ UNCHANGED <<cron, sk, dk, tk, proc, page, numCPU, maps, ctxDone, e, ret,
                   memoryChannel, resultChannel, prod, wk>>

\* line 51 and 135: the deferred closeMemoryFile() calls memFileMutex.Lock(),
\* after which no new reader gets the lock
ExtractDeferLock ==
    /\ pc = "deferClose"
    /\ ~e.memFileMutex.writer
    /\ e' = [e EXCEPT !.memFileMutex.writer = TRUE]
    /\ pc' = "closing"
    /\ UNCHANGED <<cron, sk, dk, tk, proc, page, numCPU, maps, ctxDone, ret, searchCancel,
                   memoryChannel, resultChannel, prod, wk>>

\* a slip: the file is closed but e.memFile keeps pointing at it
ExtractDeferCloseKeepsHandle ==
    /\ pc = "closing"
    /\ e.memFileMutex.readers = {}
    /\ e' = [e EXCEPT !.memFile.open = FALSE, !.memFileMutex.writer = FALSE]
    /\ pc' = "returned"
    /\ UNCHANGED <<cron, sk, dk, tk, proc, page, numCPU, maps, ctxDone, ret, searchCancel,
                   memoryChannel, resultChannel, prod, wk>>

\* lines 136-142: Lock() returns once no reader is left; the file is closed,
\* the lock released, and Extract returns
ExtractDeferClose ==
    /\ pc = "closing"
    /\ e.memFileMutex.readers = {}
    /\ e' = [e EXCEPT !.memFile = NilFile, !.memFileMutex.writer = FALSE]
    /\ pc' = "returned"
    /\ UNCHANGED <<cron, sk, dk, tk, proc, page, numCPU, maps, ctxDone, ret, searchCancel,
                   memoryChannel, resultChannel, prod, wk>>

----------------------------------------------------------------------------
(* The producer: findMemory, then the deferred close(memoryChannel) *)

ProducerReturn(err) ==
    /\ prod' = [prod EXCEPT !.pc = "done", !.err = err, !.memory = << >>]
    /\ memoryChannel' = [memoryChannel EXCEPT !.closed = TRUE]

\* lines 149-158
ProducerStart ==
    /\ prod.pc = "start"
    /\ LET got == GetVmmap(maps)
           filteredRegions == filterMemoryRegions(got.regions)
       IN  IF got.err # ErrNil THEN ProducerReturn(got.err)
           ELSE IF Len(filteredRegions) = 0
                THEN ProducerReturn(ErrNoMemoryRegionsFound)
           ELSE /\ prod' = [prod EXCEPT !.pc = "loop",
                                        !.regions = filteredRegions, !.i = 1]
                /\ memoryChannel' = memoryChannel
    /\ UNCHANGED <<cron, sk, dk, tk, proc, page, numCPU, maps, ctxDone, e, pc, ret,
                   searchCancel, resultChannel, wk>>

\* a slip: a failed read ends the loop instead of going on to the next region
ProducerLoopStopOnError ==
    /\ prod.pc = "loop"
    /\ IF prod.i > Len(prod.regions) THEN ProducerReturn(ErrNil)
       ELSE IF SearchDone THEN ProducerReturn(ErrCanceled)
       ELSE LET got == readMemoryRegion(prod.regions[prod.i])
            IN  IF got.err # ErrNil THEN ProducerReturn(got.err)
                ELSE /\ prod' = [prod EXCEPT !.pc = "send", !.memory = got.data]
                     /\ memoryChannel' = memoryChannel
    /\ UNCHANGED <<cron, sk, dk, tk, proc, page, numCPU, maps, ctxDone, e, pc, ret,
                   searchCancel, resultChannel, wk>>

\* lines 163-178 and 189: the head of one iteration, or the end of the loop
ProducerLoop ==
    /\ prod.pc = "loop"
    /\ IF prod.i > Len(prod.regions) THEN ProducerReturn(ErrNil)
       ELSE IF SearchDone THEN ProducerReturn(ErrCanceled)
       ELSE LET got == readMemoryRegion(prod.regions[prod.i])
            IN  /\ prod' = IF got.err # ErrNil
                           THEN [prod EXCEPT !.i = @ + 1]
                           ELSE [prod EXCEPT !.pc = "send", !.memory = got.data]
                /\ memoryChannel' = memoryChannel
    /\ UNCHANGED <<cron, sk, dk, tk, proc, page, numCPU, maps, ctxDone, e, pc, ret,
                   searchCancel, resultChannel, wk>>

\* a slip: the send goes through whether or not the channel has room
ProducerSendUnbounded ==
    /\ prod.pc = "send"
    /\ \/ /\ memoryChannel' = [memoryChannel EXCEPT !.buf = Append(@, prod.memory)]
          /\ prod' = [prod EXCEPT !.pc = "loop", !.i = @ + 1, !.memory = << >>]
       \/ /\ SearchDone
          /\ ProducerReturn(ErrCanceled)
    /\ UNCHANGED <<cron, sk, dk, tk, proc, page, numCPU, maps, ctxDone, e, pc, ret,
                   searchCancel, resultChannel, wk>>

\* lines 180-186: the send, or the cancellation
ProducerSend ==
    /\ prod.pc = "send"
    /\ \/ /\ Len(memoryChannel.buf) < ChannelBuffer
          /\ memoryChannel' = [memoryChannel EXCEPT !.buf = Append(@, prod.memory)]
          /\ prod' = [prod EXCEPT !.pc = "loop", !.i = @ + 1, !.memory = << >>]
       \/ /\ SearchDone
          /\ ProducerReturn(ErrCanceled)
    /\ UNCHANGED <<cron, sk, dk, tk, proc, page, numCPU, maps, ctxDone, e, pc, ret,
                   searchCancel, resultChannel, wk>>

----------------------------------------------------------------------------
(* The workers *)

\* a slip: the receive leaves the buffer in the channel
WorkerSelectOfPeek(w) ==
        /\ wk[w].pc = "recv"
        /\ \/ /\ SearchDone
              /\ wk' = [wk EXCEPT ![w].pc = "done"]
              /\ memoryChannel' = memoryChannel
           \/ /\ memoryChannel.buf # << >>
              /\ LET candidates == findCandidatePointers(Head(memoryChannel.buf))
                 IN  wk' = IF Len(candidates) = 0 THEN wk
                           ELSE [wk EXCEPT ![w].pc = "read",
                                           ![w].candidates = candidates]
              /\ memoryChannel' = memoryChannel
           \/ /\ memoryChannel.buf = << >>
              /\ memoryChannel.closed
              /\ wk' = [wk EXCEPT ![w].pc = "done"]
              /\ memoryChannel' = memoryChannel
        /\ UNCHANGED <<cron, sk, dk, tk, proc, page, numCPU, maps, ctxDone, e, pc, ret,
                       searchCancel, resultChannel, prod>>

\* lines 311-323: the select, and the scan of the buffer received
WorkerSelectOf(w) ==
        /\ wk[w].pc = "recv"
        /\ \/ /\ SearchDone
              /\ wk' = [wk EXCEPT ![w].pc = "done"]
              /\ memoryChannel' = memoryChannel
           \/ /\ memoryChannel.buf # << >>
              /\ LET candidates == findCandidatePointers(Head(memoryChannel.buf))
                 IN  wk' = IF Len(candidates) = 0 THEN wk
                           ELSE [wk EXCEPT ![w].pc = "read",
                                           ![w].candidates = candidates]
              /\ memoryChannel' = [memoryChannel EXCEPT !.buf = Tail(@)]
           \/ /\ memoryChannel.buf = << >>
              /\ memoryChannel.closed
              /\ wk' = [wk EXCEPT ![w].pc = "done"]
              /\ memoryChannel' = memoryChannel
        /\ UNCHANGED <<cron, sk, dk, tk, proc, page, numCPU, maps, ctxDone, e, pc, ret,
                       searchCancel, resultChannel, prod>>

WorkerSelect == \E w \in Workers : WorkerSelectOf(w)

\* a slip: the point-reads are made without the read lock
WorkerRLockOfNoLock(w) ==
        /\ wk[w].pc = "read"
        /\ wk' = [wk EXCEPT ![w].pc = "reading"]
        /\ UNCHANGED <<cron, sk, dk, tk, proc, page, numCPU, maps, ctxDone, e, pc, ret,
                       searchCancel, memoryChannel, resultChannel, prod>>

\* lines 386-391 and 269: batchValidateKeys calls batchReadMemory, which
\* takes the read lock
WorkerRLockOf(w) ==
        /\ wk[w].pc = "read"
        /\ ~e.memFileMutex.writer
        /\ e' = [e EXCEPT !.memFileMutex.readers = @ \cup {w}]
        /\ wk' = [wk EXCEPT ![w].pc = "reading"]
        /\ UNCHANGED <<cron, sk, dk, tk, proc, page, numCPU, maps, ctxDone, pc, ret,
                       searchCancel, memoryChannel, resultChannel, prod>>

WorkerRLock == \E w \in Workers : WorkerRLockOf(w)

\* lines 272-287 and 392-395: the point-reads, the unlock, the empty map
WorkerReadOf(w) ==
        /\ wk[w].pc = "reading"
        /\ LET keyDataMap == batchReadMemory(e.memFile, wk[w].candidates, 32)
           IN  wk' = IF keyDataMap = {}
                     THEN [wk EXCEPT ![w] = FreshWorker]
                     ELSE [wk EXCEPT ![w].pc = "validate",
                                     ![w].keyDataMap = keyDataMap]
        /\ e' = [e EXCEPT !.memFileMutex.readers = @ \ {w}]
        /\ UNCHANGED <<cron, sk, dk, tk, proc, page, numCPU, maps, ctxDone, pc, ret,
                       searchCancel, memoryChannel, resultChannel, prod>>

WorkerRead == \E w \in Workers : WorkerReadOf(w)

\* lines 398-407: one iteration over the map, whose order Go leaves open
WorkerValidateOf(w) ==
        /\ wk[w].pc = "validate"
        /\ \E entry \in wk[w].keyDataMap :
              LET key == KeyOf(page, entry.data)
                  rest == wk[w].keyDataMap \ {entry}
              IN  wk' = IF key # << >>
                        THEN [wk EXCEPT ![w].pc = "post", ![w].key = key,
                                        ![w].keyDataMap = {}]
                        ELSE IF rest = {} THEN [wk EXCEPT ![w] = FreshWorker]
                        ELSE [wk EXCEPT ![w].keyDataMap = rest]
        /\ UNCHANGED <<cron, sk, dk, tk, proc, page, numCPU, maps, ctxDone, e, pc, ret,
                       searchCancel, memoryChannel, resultChannel, prod>>

WorkerValidate == \E w \in Workers : WorkerValidateOf(w)

\* a slip: the key is queued whether or not resultChannel has room
WorkerPostOfUnbounded(w) ==
        /\ wk[w].pc = "post"
        /\ resultChannel' = [resultChannel EXCEPT !.buf = Append(@, wk[w].key)]
        /\ wk' = [wk EXCEPT ![w] = [FreshWorker EXCEPT !.pc = "done"]]
        /\ UNCHANGED <<cron, sk, dk, tk, proc, page, numCPU, maps, ctxDone, e, pc, ret,
                       searchCancel, memoryChannel, prod>>

\* lines 328-335: the send that does not block
WorkerPostOf(w) ==
        /\ wk[w].pc = "post"
        /\ IF Len(resultChannel.buf) < 1
           THEN /\ resultChannel' = [resultChannel EXCEPT
                                        !.buf = Append(@, wk[w].key)]
                /\ wk' = [wk EXCEPT ![w] = [FreshWorker EXCEPT !.pc = "done"]]
           ELSE /\ resultChannel' = resultChannel
                /\ wk' = [wk EXCEPT ![w] = FreshWorker]
        /\ UNCHANGED <<cron, sk, dk, tk, proc, page, numCPU, maps, ctxDone, e, pc, ret,
                       searchCancel, memoryChannel, prod>>

WorkerPost == \E w \in Workers : WorkerPostOf(w)

----------------------------------------------------------------------------
(* lines 94-98: the goroutine that closes resultChannel *)

\* a slip: the workers are not waited for
AllDoneProducerOnly == prod.pc = "done"

\* producerWaitGroup.Wait() and workerWaitGroup.Wait() have returned
AllDone == prod.pc = "done" /\ \A w \in Workers : wk[w].pc = "done"

\* a slip: resultChannel is closed without waiting for anyone
CloserNoWait ==
    /\ wk # << >>
    /\ ~resultChannel.closed
    /\ resultChannel' = [resultChannel EXCEPT !.closed = TRUE]
    /\ UNCHANGED <<cron, sk, dk, tk, proc, page, numCPU, maps, ctxDone, e, pc, ret,
                   searchCancel, memoryChannel, prod, wk>>

Closer ==
    /\ AllDone
    /\ ~resultChannel.closed
    /\ resultChannel' = [resultChannel EXCEPT !.closed = TRUE]
    /\ UNCHANGED <<cron, sk, dk, tk, proc, page, numCPU, maps, ctxDone, e, pc, ret,
                   searchCancel, memoryChannel, prod, wk>>

----------------------------------------------------------------------------

Next ==
    \/ Cancel
    \/ ExtractBegin
    \/ ExtractInit
    \/ ExtractSpawn
    \/ ExtractSelect
    \/ ExtractDeferCancel
    \/ ExtractDeferLock
    \/ ExtractDeferClose
    \/ ProducerStart
    \/ ProducerLoop
    \/ ProducerSend
    \/ WorkerSelect
    \/ WorkerRLock
    \/ WorkerRead
    \/ WorkerValidate
    \/ WorkerPost
    \/ Closer

Spec == Init /\ [][Next]_vars

----------------------------------------------------------------------------
(* Scheduling: the Go runtime runs every goroutine that can take a step *)

ExtractStep ==
    \/ ExtractBegin \/ ExtractInit \/ ExtractSpawn
    \/ ExtractSelect \/ ExtractDeferCancel \/ ExtractDeferLock
    \/ ExtractDeferClose

ProducerStep == ProducerStart \/ ProducerLoop \/ ProducerSend

WorkerStep(w) ==
    /\ w \in Workers
    /\ \/ WorkerSelectOf(w) \/ WorkerRLockOf(w) \/ WorkerReadOf(w)
       \/ WorkerValidateOf(w) \/ WorkerPostOf(w)

\* the calls the scheduling properties are checked on: the largest machine
\* and a page that is encrypted
LiveInit == Init /\ numCPU = MaxCPU /\ ~page.saltZero

\* every goroutine is scheduled; the caller need not cancel
LiveSpec ==
    /\ LiveInit /\ [][Next]_vars
    /\ WF_vars(ExtractStep)
    /\ WF_vars(ProducerStep)
    /\ \A w \in 1..WorkerCount(MaxCPU) : WF_vars(WorkerStep(w))
    /\ WF_vars(Closer)

\* only the goroutine running Extract is scheduled for sure, and a worker
\* that holds the read lock gets through its point-reads
ExtractFairSpec ==
    /\ LiveInit /\ [][Next]_vars
    /\ WF_vars(ExtractStep)
    /\ \A w \in 1..WorkerCount(MaxCPU) : WF_vars(w \in Workers /\ WorkerReadOf(w))

----------------------------------------------------------------------------
(* Properties of Extract *)

\* Extract got past the offline test and initMemoryFile and ran the scan
ScanRan == pc \in {"deferCancel", "deferClose", "closing", "returned"}
           /\ ret.err \notin {ErrWeChatOffline, ErrInitMemoryFile}

\* the regions the producer loop works through
Filtered == filterMemoryRegions(LoadVmmap(maps.lines))

\* value of a lowercase hexadecimal digit, 16 for any other character
HexValue(c) ==
    IF \E d \in 1..16 : HexDigits[d] = c
    THEN (CHOOSE d \in 1..16 : HexDigits[d] = c) - 1
    ELSE 16

\* str is the lowercase hexadecimal writing of bytes
IsHexOf(str, bytes) ==
    /\ Len(str) = 2 * Len(bytes)
    /\ \A i \in 1..Len(bytes) :
          /\ HexValue(str[2 * i - 1]) < 16
          /\ HexValue(str[2 * i]) < 16
          /\ 16 * HexValue(str[2 * i - 1]) + HexValue(str[2 * i]) = bytes[i]

\* the pointers that stand before an occurrence of the pattern in memory, at
\* an offset of 8 or more, and lie in the accepted range
AnchoredPointers(memory) ==
    { littleEndianFunc(SubSeq(memory, p - ptrSize + 1, p)) :
        p \in { q \in ptrSize..(Len(memory) - Len(keyPattern)) :
                  /\ OccursAt(memory, keyPattern, q)
                  /\ PtrAccepted(littleEndianFunc(SubSeq(memory, q - ptrSize + 1, q))) } }

\* the pointers anchored in the regions that are filtered in and read
PublishedPointers ==
    UNION { AnchoredPointers(Filtered[i].data) :
            i \in { j \in 1..Len(Filtered) : Filtered[j].ok } }

\* the 32-byte strings that lie in the target behind such a pointer and that
\* the validator accepts
ValidKeys ==
    { ReadAt(proc.PID, a, 32).data :
        a \in { b \in PublishedPointers :
                  /\ ReadAt(proc.PID, b, 32).n = 32
                  /\ Validate(page, ReadAt(proc.PID, b, 32).data) } }

\* C1: every return of Extract is either a non-empty key with a nil error or
\* an empty string with a non-nil error, never both and never neither
C1_OneOutcome ==
    /\ pc = "returned" => ret # NoReturn
    /\ ret # NoReturn =>
          /\ ret.err # "pending"
          /\ (ret.key # << >>) <=> (ret.err = ErrNil)

C1_Witness == pc = "returned" /\ ret.err = ErrNil /\ ret.key # << >>

\* C2: a returned key is 64 lowercase hexadecimal characters that write 32
\* bytes which were read in the target at an accepted candidate pointer of a
\* published region and which the validator accepted
C2_KeyIsValidatedHex ==
    ret.err = ErrNil =>
        /\ maps.readable
        /\ Len(ret.key) = 64
        /\ \E k \in ValidKeys : Len(k) = 32 /\ IsHexOf(ret.key, k)

C2_Witness ==
    /\ pc = "returned"
    /\ ret.err = ErrNil
    /\ \E i \in 1..Len(maps.lines) : maps.lines[i].data = BufJunk

\* C3: when the context is never cancelled and a region that is filtered in
\* and read holds, at an offset of 8 or more, the pattern behind an in-range
\* pointer to 32 bytes that validate, Extract returns that key, whatever
\* other matches the buffer holds
C3_PresentKeyIsReturned ==
    (pc = "returned" /\ ScanRan /\ ~ctxDone /\ maps.readable /\ ValidKeys # {})
        => /\ ret.err = ErrNil
           /\ \E k \in ValidKeys : IsHexOf(ret.key, k)

\* C4: when the context is cancelled before any worker has posted a key,
\* Extract returns the context's error, in every interleaving
C4_CancelledReturnsCtxErr ==
    (pc = "returned" /\ ScanRan /\ ctxDone
        /\ ret.key = << >> /\ resultChannel.buf = << >>)
        => ret.err = ErrCanceled

\* a worker holds a key it validated, or the key is on its way to the caller
SomeKeyValidated ==
    \/ \E w \in Workers : wk[w].pc = "post"
    \/ resultChannel.buf # << >>
    \/ ret.key # << >>

\* C5: with the context not cancelled and no candidate validating, Extract
\* returns ErrNoValidKey in the end, and only once the producer has finished,
\* no buffer is queued and no worker is busy with one
C5_ExhaustedReturnsNoValidKey ==
    /\ []((ret.err = ErrNoValidKey /\ ~ctxDone) =>
            /\ prod.pc = "done"
            /\ memoryChannel.buf = << >>
            /\ \A w \in Workers : wk[w].pc = "done")
    /\ (pc = "select") ~>
            (ctxDone \/ SomeKeyValidated
                \/ (pc = "returned" /\ ret.err = ErrNoValidKey))

C5_Witness ==
    /\ pc = "returned"
    /\ ret.err = ErrNoValidKey
    /\ ~ctxDone
    /\ \E i \in 1..Len(Filtered) : Filtered[i].ok

\* C6: when enumeration and filtering leave no region, Extract returns
\* ErrNoMemoryRegionsFound
C6_NoRegionsIsReported ==
    (pc = "returned" /\ ScanRan /\ ~ctxDone /\ maps.readable /\ Filtered = << >>)
        => ret.err = ErrNoMemoryRegionsFound

\* C7: when no region was ever read (the maps file cannot be read, or every
\* read of a region fails), Extract returns the first acquisition error
C7_AcquisitionErrorIsReported ==
    /\ (pc = "returned" /\ ScanRan /\ ~ctxDone /\ ~maps.readable)
          => ret.err = ErrRunCmdFailed
    /\ (pc = "returned" /\ ScanRan /\ ~ctxDone /\ maps.readable
          /\ Filtered # << >> /\ \A i \in 1..Len(Filtered) : ~Filtered[i].ok)
          => ret.err = ErrReadMemoryFailed

\* C8: for a first page whose salt is all zero, Extract returns
\* DatabaseNotEncrypted before the memory file is opened and before any
\* producer or worker is started
C8_ZeroSaltShortCircuits ==
    (page.saltZero /\ proc.Status # StatusOffline) =>
        /\ e.memFile = NilFile
        /\ prod.pc = "idle"
        /\ wk = << >>
        /\ pc = "returned" => ret.err = ErrDatabaseNotEncrypted

\* C9: for an offline process Extract returns ErrWeChatOffline and touches
\* nothing: currentPID is not written, the memory file is not opened, no
\* producer or worker is started
C9_OfflineTouchesNothing ==
    proc.Status = StatusOffline =>
        /\ e = NewV4Extractor
        /\ prod = IdleProducer
        /\ wk = << >>
        /\ ~searchCancel
        /\ memoryChannel = [buf |-> << >>, closed |-> FALSE]
        /\ resultChannel = [buf |-> << >>, closed |-> FALSE]
        /\ pc \in {"start", "returned"}
        /\ pc = "returned" => ret = [key |-> << >>, err |-> ErrWeChatOffline]

C9_Witness == proc.Status = StatusOffline /\ pc = "returned"

\* C10: once the context is cancelled during a scan Extract returns in the
\* end; the producer's region read and send and the workers' receive,
\* validation and post need not finish for that, only a point read that
\* already holds the read lock of the memory file
C10_CancelledExtractReturns ==
    (pc = "select" /\ ctxDone) ~> (pc = "returned")

C10_Witness ==
    /\ pc = "returned"
    /\ ret.err = ErrCanceled
    /\ prod.pc = "send"
    /\ \E w \in Workers : wk[w].pc = "validate"

----------------------------------------------------------------------------
(* The goroutines after Extract has returned *)

\* the producer, every worker and the closing goroutine have returned
AllTerminated ==
    /\ prod.pc = "done"
    /\ \A w \in Workers : wk[w].pc = "done"
    /\ resultChannel.closed

----------------------------------------------------------------------------
(* The goroutines Extract starts, on machines of every size *)

\* a call of Extract on a machine with up to MaxCount processors
SpawnInit ==
    /\ proc \in [PID : {4242}, Status : {StatusOnline, StatusOffline}]
    /\ page \in Pages
    /\ numCPU \in 1..MaxCount
    /\ maps \in [readable : BOOLEAN, lines : {<< >>}]
    /\ ctxDone \in BOOLEAN
    /\ e = NewV4Extractor
    /\ pc = "start"
    /\ ret = NoReturn
    /\ searchCancel = FALSE
    /\ memoryChannel = [buf |-> << >>, closed |-> FALSE]
    /\ resultChannel = [buf |-> << >>, closed |-> FALSE]
    /\ prod = IdleProducer
    /\ wk = << >>
    /\ tk = IdleTool
    /\ dk = IdleDump
    /\ sk = IdleSearch
    /\ cron = NewService

\* Extract up to the point where its goroutines are started
SpawnNext == ExtractBegin \/ ExtractInit \/ ExtractSpawn

SpawnSpec == SpawnInit /\ [][SpawnNext]_vars

\* C12: Extract starts min(max(n, 2), 16) workers and one producer for a
\* machine with n processors, never fewer than 2 workers and never more than 16
C12_WorkerCountClamped ==
    /\ pc = "select" =>
          /\ Len(wk) = (IF numCPU <= 2 THEN 2 ELSE IF numCPU >= 16 THEN 16 ELSE numCPU)
          /\ \A w \in Workers : wk[w] = FreshWorker
          /\ prod.pc = "start"
    /\ pc # "select" => wk = << >> /\ prod.pc = "idle"
    /\ wk # << >> => Len(wk) >= 2 /\ Len(wk) <= 16

C12_Witness == pc = "select" /\ numCPU > 16 /\ Len(wk) = 16

----------------------------------------------------------------------------
(* The producer and the memory channel, on maps files of every kind *)

ro == <<"r", "-", "-", "p">>
wo == <<"-", "w", "-", "p">>
PathLib == <<"l", "i", "b", "c", ".", "s", "o">>
PathFile == <<"/", "d", "b">>

\* what the range of a mapping holds, told apart by its pathname
DataOf(pathname) ==
    IF pathname = PathHeap THEN BufKey
    ELSE IF pathname = PathNone THEN BufJunk
    ELSE IF pathname = PathFile THEN BufNone
    ELSE IF pathname = PathStack THEN BufMany
    ELSE <<5>> \o BufNone

\* sizes around MinRegionSize, and 101 MiB
ScanSizes == {MinRegionSize - 1, MinRegionSize, 101 * 1048576}

\* every combination, read with success, and one mapping whose read fails
ScanMappings ==
    { [perms |-> p, pathname |-> n, size |-> z, ok |-> TRUE, data |-> DataOf(n)] :
        p \in {rw, ro, wo},
        n \in {PathHeap, PathNone, PathFile, PathStack, PathLib},
        z \in ScanSizes }
    \cup { [perms |-> rw, pathname |-> PathNone, size |-> 2 * MinRegionSize,
            ok |-> FALSE, data |-> << >>] }

ScanFiles ==
    UNION { { [i \in 1..n |-> LineOf(f[i], i)] : f \in [1..n -> ScanMappings] }
            : n \in 0..MaxScanLines }

\* LongLines anonymous mappings of 3 MiB, 4 MiB apart, each with an anchor, so
\* that a worker that has received one is busy with its candidates
LongFile ==
    [i \in 1..LongLines |->
        [start |-> i * 4194304, end |-> i * 4194304 + 3 * MinRegionSize,
         perms |-> rw, pathname |-> PathNone, ok |-> TRUE,
         data |-> Anchor(AddrJunk)]]

\* a call of Extract for an online process whose maps file is one of files
ScanInit(files) ==
    /\ proc = [PID |-> 4242, Status |-> StatusOnline]
    /\ page = [saltZero |-> FALSE, key |-> TrueKey]
    /\ numCPU = 1
    /\ maps \in [readable : {TRUE}, lines : files]
    /\ ctxDone = FALSE
    /\ e = NewV4Extractor
    /\ pc = "start"
    /\ ret = NoReturn
    /\ searchCancel = FALSE
    /\ memoryChannel = [buf |-> << >>, closed |-> FALSE]
    /\ resultChannel = [buf |-> << >>, closed |-> FALSE]
    /\ prod = IdleProducer
    /\ wk = << >>
    /\ tk = IdleTool
    /\ dk = IdleDump
    /\ sk = IdleSearch
    /\ cron = NewService

\* Extract up to its select, the producer, and the workers' receive; what a
\* worker does with a buffer it holds, and Extract's return, change neither
\* the regions of the producer nor the content of memoryChannel
ProducerNext ==
    \/ Cancel
    \/ ExtractBegin
    \/ ExtractInit
    \/ ExtractSpawn
    \/ ProducerStart
    \/ ProducerLoop
    \/ ProducerSend
    \/ WorkerSelect

\* the short maps files of every kind
ProducerSpec == ScanInit(ScanFiles) /\ [][ProducerNext]_vars

\* the one long maps file
FillSpec == ScanInit({LongFile}) /\ [][ProducerNext]_vars

\* C13 as claimed: at most 100 buffers are published and not yet received
C13_AtMostHundredQueued == Len(memoryChannel.buf) <= 100

\* C13, amended: at most 200 buffers are published and not yet received; at
\* a full channel the producer stays at its send until a worker receives or
\* the scan is cancelled, and no buffer is dropped or overwritten
C13_ChannelBounded ==
    /\ [](Len(memoryChannel.buf) <= 200)
    /\ [][(prod.pc = "send" /\ Len(memoryChannel.buf) = 200 /\ ~SearchDone)
            => prod' = prod]_vars
    /\ [][\/ memoryChannel'.buf = memoryChannel.buf
          \/ /\ memoryChannel.buf # << >>
             /\ memoryChannel'.buf = Tail(memoryChannel.buf)
          \/ /\ prod.pc = "send"
             /\ memoryChannel'.buf = Append(memoryChannel.buf, prod.memory)]_vars

\* the channel is full and the producer stands at its send with one more
C13_Witness ==
    /\ Len(memoryChannel.buf) = 200
    /\ prod.pc = "send"
    /\ ~SearchDone

\* C14: every region the producer loop works through, and so every region
\* read and published, has both r and w in its permissions
C14_OnlyReadWriteRegions ==
    \A i \in 1..Len(prod.regions) :
        /\ Contains(prod.regions[i].Permissions, <<"r">>)
        /\ Contains(prod.regions[i].Permissions, <<"w">>)

\* the producer has its filtered regions
Enumerated == prod.pc \notin {"idle", "start"}

\* C15: no region of fewer than 1048576 bytes passes filterMemoryRegions, and
\* a writable heap or anonymous mapping of 1048576 bytes or more does pass
C15_SizeThreshold ==
    Enumerated =>
        /\ \A i \in 1..Len(prod.regions) :
              prod.regions[i].End - prod.regions[i].Start >= 1048576
        /\ \A j \in 1..Len(maps.lines) :
              ( /\ maps.lines[j].end - maps.lines[j].start >= 1048576
                /\ maps.lines[j].perms \in {rw, wo}
                /\ maps.lines[j].pathname \in {PathNone, PathHeap} )
              => \E i \in 1..Len(prod.regions) :
                    prod.regions[i].Start = maps.lines[j].start

\* a heap of one byte less than 1 MiB was dropped, one of 1 MiB was kept
C15_Witness ==
    /\ Enumerated
    /\ Len(maps.lines) = 2
    /\ maps.lines[1].pathname = PathHeap /\ maps.lines[1].perms = rw
    /\ maps.lines[1].end - maps.lines[1].start = 1048575
    /\ maps.lines[2].end - maps.lines[2].start = 1048576
    /\ Len(prod.regions) = 1
    /\ prod.regions[1].Start = maps.lines[2].start

\* C16: the filtered regions are heap, anonymous or writable mapped files;
\* a stack or a library is never among them, whatever its size and
\* permissions, and no region of another class is
C16_OnlyScannedClasses ==
    \A i \in 1..Len(prod.regions) :
        LET region == prod.regions[i]
        IN  /\ \/ region.RegionType \in {"[heap]", "[anonymous]"}
               \/ /\ region.RegionType = "[mapped]"
                  /\ \E k \in 1..Len(region.Permissions) :
                        region.Permissions[k] = "w"
            /\ region.RegionDetail \notin {PathStack, PathLib}
            /\ region.RegionDetail = PathHeap <=> region.RegionType = "[heap]"
            /\ region.RegionDetail = PathNone <=> region.RegionType = "[anonymous]"

\* a writable stack and a writable library of 101 MiB were both dropped
C16_Witness ==
    /\ Enumerated
    /\ Len(maps.lines) = 2
    /\ maps.lines[1].pathname = PathStack /\ maps.lines[1].perms = rw
    /\ maps.lines[2].pathname = PathLib /\ maps.lines[2].perms = rw
    /\ \A j \in 1..2 : maps.lines[j].end - maps.lines[j].start > MinRegionSize
    /\ prod.regions = << >>
    /\ prod.err = ErrNoMemoryRegionsFound

\* the regions whose buffer the producer has sent, by their start address
SentStarts ==
    { prod.regions[i].Start :
        i \in { j \in 1..Len(prod.regions) : j < prod.i /\ prod.regions[j].ok } }

\* the line was read and its buffer sent
LineSent(line) == line.start \in SentStarts

\* the buffers sent so far, in the order of their lines in the maps file
SentInFileOrder ==
    LET sent == SelectSeq(maps.lines, LineSent)
    IN  [i \in 1..Len(sent) |-> sent[i].data]

\* C17: the filtered regions stand in the order of their lines in the maps
\* file, and the buffers in memoryChannel are, in that same order, the last
\* of the buffers of the regions read so far
C17_FileOrderKept ==
    /\ \A i \in 1..Len(prod.regions) : \A j \in 1..Len(prod.regions) :
          i < j => prod.regions[i].Start < prod.regions[j].Start
    /\ Enumerated =>
          \E n \in 0..Len(SentInFileOrder) :
              memoryChannel.buf =
                  SubSeq(SentInFileOrder, n + 1, Len(SentInFileOrder))

\* two buffers that differ are queued, in the order of their lines
C17_Witness ==
    /\ Len(memoryChannel.buf) = 2
    /\ memoryChannel.buf[1] # memoryChannel.buf[2]
    /\ memoryChannel.buf = SentInFileOrder

\* a region whose read fails stands before a region that holds the key's
\* anchor and nothing else
KeyBehindFailedRead ==
    \E i \in 1..Len(Filtered) : \E j \in 1..Len(Filtered) :
        /\ i < j
        /\ ~Filtered[i].ok
        /\ Filtered[j].ok
        /\ Filtered[j].data = BufKey

\* C18: a region whose read fails publishes nothing and does not end the
\* producer: it never returns that error, it ends without error only past
\* its last region, what it sends is the buffer of a region that was read,
\* and a key in a later region is returned by Extract
C18_FailedReadIsSkipped ==
    /\ prod.err # ErrReadMemoryFailed
    /\ (prod.pc = "done" /\ prod.err = ErrNil) => prod.i > Len(prod.regions)
    /\ prod.pc = "send" =>
          /\ prod.regions[prod.i].ok
          /\ prod.memory = prod.regions[prod.i].data
    /\ ( /\ pc = "returned" /\ ScanRan /\ ~ctxDone
         /\ maps.readable /\ ~page.saltZero
         /\ KeyBehindFailedRead )
       => ret.err = ErrNil /\ IsHexOf(ret.key, TrueKey)

C18_Witness ==
    /\ pc = "returned"
    /\ ret.err = ErrNil
    /\ KeyBehindFailedRead

\* C19: no region of more than 100 MiB is read and published; the producer
\* skips it
C19_NoBufferOverCap ==
    prod.pc = "send" =>
        prod.regions[prod.i].End - prod.regions[prod.i].Start <= 104857600

----------------------------------------------------------------------------
(* The workers' sweep of a buffer, on buffers of every shape *)

\* anchors of the key and of other bytes, both readable
BufTwo == Anchor(AddrKey) \o Anchor(AddrJunk)
\* the key's anchor, and the pattern once more right behind it
BufAbut == Anchor(AddrKey) \o keyPattern
\* the key's anchor, and the pattern once more on its last 7 bytes
BufOverlap == Anchor(AddrKey) \o SubSeq(keyPattern, 8, 24)
\* the pattern at offset 3, and the key's anchor behind it
BufShort == <<1, 2, 3>> \o keyPattern \o <<9>> \o Anchor(AddrKey)
\* the key's anchor before the anchor of an unmapped address
BufFaultKey == Anchor(AddrKey) \o Anchor(AddrFault)


\* pointers at and next to the bounds of the range test: 0x10001,
\* 0x7FFFFFFFFFFE, 0x800000000000, and 0x8000000000020000 with its top bit set
PtrLowNext == <<0, 0, 0, 0, 0, 1, 0, 1>>
PtrHighPrev == <<0, 0, 127, 255, 255, 255, 255, 254>>
PtrAbove == <<0, 0, 128, 0, 0, 0, 0, 0>>
PtrTopBit == <<128, 0, 0, 0, 0, 2, 0, 0>>

\* an anchor for each of them, for the two bounds and for 0
BufBounds ==
    Anchor(PtrLow) \o Anchor(PtrLowNext) \o Anchor(PtrTopBit) \o Anchor(Zeros(8))
        \o Anchor(PtrHighPrev) \o Anchor(PtrHigh) \o Anchor(PtrAbove)

\* the anchor of the address whose first read comes back short
BufFlaky == Anchor(AddrFlaky)

\* anonymous mappings of 1 MiB that hold these buffers
SweepMappings ==
    { [perms |-> rw, pathname |-> PathNone, size |-> MinRegionSize,
       ok |-> TRUE, data |-> d] :
        d \in {BufKey, BufTwo, BufAbut, BufOverlap, BufShort, BufFaultKey,
               BufBounds, BufFlaky} }

SweepFiles ==
    UNION { { [i \in 1..n |-> LineOf(f[i], i)] : f \in [1..n -> SweepMappings] }
            : n \in 0..MaxSweepLines }

\* the whole of Extract on these maps files
SweepSpec == ScanInit(SweepFiles) /\ [][Next]_vars

\* C22: a worker that validates a candidate after the scan context was
\* cancelled does not go on to validate another, and receives and sweeps no
\* further buffer
C22_StopsAfterCancel ==
    [][\A w \in Workers :
          /\ (SearchDone /\ wk[w].pc = "validate" /\ wk'[w] # wk[w])
                => wk'[w].pc # "validate"
          /\ (SearchDone /\ wk[w].pc = "recv" /\ wk'[w] # wk[w])
                => wk'[w].pc = "done"]_vars

\* C23: the sweep of a received buffer visits every occurrence of the
\* pattern at an offset of 8 or more, also one that overlaps or abuts the
\* occurrence found before it: each accepted pointer that stands before an
\* occurrence is among the candidates, unless BatchValidateSize were taken
C23_EveryOccurrenceVisited ==
    [][(memoryChannel.buf # << >> /\ memoryChannel'.buf = Tail(memoryChannel.buf))
          => \A a \in AnchoredPointers(Head(memoryChannel.buf)) :
                \E w \in Workers :
                    /\ wk'[w] # wk[w]
                    /\ wk'[w].pc = "read"
                    /\ \/ \E i \in 1..Len(wk'[w].candidates) :
                              wk'[w].candidates[i] = a
                       \/ Len(wk'[w].candidates) = BatchValidateSize]_vars

\* place of address a among the candidates of worker w, which stand in the
\* order they were found in, from the end of the buffer to its start
FoundAt(w, a) ==
    CHOOSE i \in 1..Len(wk[w].candidates) :
        /\ wk[w].candidates[i] = a
        /\ \A j \in 1..(i - 1) : wk[w].candidates[j] # a

\* the entries of keyDataMap that worker w validates in this step
ValidatedNow(w) ==
    IF wk'[w].pc = "validate" THEN wk[w].keyDataMap \ wk'[w].keyDataMap
    ELSE IF wk'[w].pc = "post"
         THEN { en \in wk[w].keyDataMap : KeyOf(page, en.data) = wk'[w].key }
    ELSE wk[w].keyDataMap

\* C24: a worker validates the candidates of one buffer from the end of the
\* buffer to its start: the candidate it validates was found at a higher
\* offset than every candidate it has still to validate
C24_BackToFrontValidation ==
    [][\A w \in Workers :
          (wk[w].pc = "validate" /\ wk'[w] # wk[w])
             => \A en \in ValidatedNow(w) : \A other \in wk[w].keyDataMap :
                   FoundAt(w, en.addr) <= FoundAt(w, other.addr)]_vars

\* C25: a worker whose push of a validated key finds resultChannel full
\* returns at once: it is done, and receives and sweeps no further buffer
C25_FullChannelEndsWorker ==
    [][\A w \in Workers :
          (wk[w].pc = "post" /\ Len(resultChannel.buf) >= 1 /\ wk'[w] # wk[w])
             => wk'[w].pc = "done"]_vars

\* C26 as claimed: a key is sent on resultChannel only when none was sent
\* before, so none is sent after Extract has received one
C26_SingleSend ==
    [][Len(resultChannel'.buf) > Len(resultChannel.buf)
          => resultChannel.buf = << >> /\ ret.key = << >>]_vars

\* C26, amended: resultChannel never holds more than one key; Extract
\* receives at most once, and the key it returns is the first key that was
\* sent; a key that a worker sends after that is queued and never received
C26_FirstSentKeyWins ==
    /\ [](Len(resultChannel.buf) <= 1)
    /\ [][resultChannel'.buf # resultChannel.buf =>
            \/ /\ resultChannel.buf = << >>
               /\ \E w \in Workers :
                     /\ wk[w].pc = "post"
                     /\ resultChannel'.buf = <<wk[w].key>>
            \/ /\ resultChannel.buf # << >>
               /\ resultChannel'.buf = << >>
               /\ pc = "select"
               /\ ret = NoReturn
               /\ ret' = [key |-> Head(resultChannel.buf), err |-> ErrNil]]_vars
    /\ [][ret # NoReturn => ret' = ret]_vars

\* Extract has received a key, and a second key was sent after that
C26_Witness ==
    /\ ret.err = ErrNil
    /\ ret.key # << >>
    /\ resultChannel.buf # << >>

\* a worker takes the buffer at the head of memoryChannel in this step
Received ==
    memoryChannel.buf # << >> /\ memoryChannel'.buf = Tail(memoryChannel.buf)

\* the candidates the receiving worker holds after the step
CandidatesNow ==
    IF \E w \in Workers : wk'[w] # wk[w]
    THEN wk'[CHOOSE w \in Workers : wk'[w] # wk[w]].candidates
    ELSE << >>

\* the 0-based offsets below ptrSize at which the pattern occurs in memory
EarlyMatches(memory) ==
    { q \in 0..(ptrSize - 1) :
        q + Len(keyPattern) <= Len(memory) /\ OccursAt(memory, keyPattern, q) }

\* memory with the occurrences of the pattern below ptrSize undone: their
\* byte 0x20 is changed
Spoil(memory) ==
    [i \in 1..Len(memory) |->
        IF \E q \in EarlyMatches(memory) : i = q + 9 THEN 33 ELSE memory[i]]

\* C27: an occurrence of the pattern at an offset below 8 gives no
\* candidate; no slice of the buffer is taken at a negative offset; and the
\* candidates of the buffer are those it has without that occurrence
C27_EarlyMatchIsHarmless ==
    [][Received =>
          LET memory == Head(memoryChannel.buf)
              slices == findCandidateLoop(memory).slices
              anchored == AnchoredPointers(memory)
              spoiled == Spoil(memory)
          IN  /\ \A i \in 1..Len(slices) : slices[i] >= 0
              /\ \A i \in 1..Len(CandidatesNow) : CandidatesNow[i] \in anchored
              /\ EarlyMatches(spoiled) = {}
              /\ CandidatesNow = findCandidatePointers(spoiled)]_vars

\* a worker holds the candidate of a buffer that has the pattern at offset
\* 3 and the key's anchor behind it
C27_Witness ==
    /\ Len(maps.lines) = 1
    /\ maps.lines[1].data = BufShort
    /\ EarlyMatches(BufShort) = {3}
    /\ \E w \in Workers : wk[w].pc = "read" /\ wk[w].candidates = <<AddrKey>>

\* 0x10000 < ptr < 0x7FFFFFFFFFFF, on the value of ptr taken in three parts:
\* bits 48-63, bits 24-47 and bits 0-23
InRange(ptr) ==
    LET top == ptr[1] * 256 + ptr[2]
        mid == ptr[3] * 65536 + ptr[4] * 256 + ptr[5]
        low == ptr[6] * 65536 + ptr[7] * 256 + ptr[8]
    IN  /\ top = 0
        /\ mid > 0 \/ low > 65536
        /\ mid < 8388607 \/ (mid = 8388607 /\ low < 16777215)

\* the pointers the sweep of memory reads before the matches it visits
PointersRead(memory) ==
    { littleEndianFunc(SubSeq(memory, findCandidateLoop(memory).slices[i] + 1,
                              findCandidateLoop(memory).slices[i] + ptrSize)) :
        i \in 1..Len(findCandidateLoop(memory).slices) }

\* C28: of the pointers read before the matches of a buffer, the candidates
\* are exactly those with 0x10000 < ptr < 0x7FFFFFFFFFFF; the two bounds, 0
\* and values with a high bit set are no candidates, and only candidates
\* are point-read
C28_PointerRangeExclusive ==
    /\ [](\A w \in Workers :
            /\ \A i \in 1..Len(wk[w].candidates) :
                  /\ InRange(wk[w].candidates[i])
                  /\ wk[w].candidates[i] \notin {PtrLow, PtrHigh, Zeros(8)}
                  /\ wk[w].candidates[i][1] = 0 /\ wk[w].candidates[i][2] = 0
                  /\ wk[w].candidates[i][3] < 128
            /\ \A en \in wk[w].keyDataMap :
                  \E i \in 1..Len(wk[w].candidates) : wk[w].candidates[i] = en.addr)
    /\ [][Received =>
            \A ptr \in PointersRead(Head(memoryChannel.buf)) :
                InRange(ptr) <=>
                    \E i \in 1..Len(CandidatesNow) : CandidatesNow[i] = ptr]_vars

\* of the seven pointers of BufBounds a worker holds 0x7FFFFFFFFFFE and
\* 0x10001 as its candidates
C28_Witness ==
    /\ \E j \in 1..Len(maps.lines) : maps.lines[j].data = BufBounds
    /\ \E w \in Workers :
          /\ wk[w].pc = "read"
          /\ wk[w].candidates = <<PtrHighPrev, PtrLowNext>>

\* the candidates of worker w whose 32 bytes can be read in the target
Readable(w) ==
    { wk[w].candidates[i] :
        i \in { j \in 1..Len(wk[w].candidates) :
                  ReadAt(proc.PID, wk[w].candidates[j], 32).n = 32 } }

\* C29: a point-read that fails drops its candidate and nothing else: after
\* the reads of a buffer's candidates the worker holds the bytes of every
\* candidate that could be read, and validates them; if none could be read
\* it goes back to receive the next buffer; and a key that stands in a
\* buffer beside a pointer that cannot be read is returned by a scan that
\* is not cancelled
C29_FailedPointReadDropsOne ==
    /\ [][\A w \in Workers :
            (wk[w].pc = "reading" /\ wk'[w] # wk[w] /\ e.memFile # NilFile)
               => /\ { en.addr : en \in wk'[w].keyDataMap } = Readable(w)
                  /\ \A en \in wk'[w].keyDataMap :
                        en.data = ReadAt(proc.PID, en.addr, 32).data
                  /\ wk'[w].pc = IF Readable(w) = {} THEN "recv" ELSE "validate"]_vars
    /\ []( ( /\ pc = "returned" /\ ScanRan /\ ~ctxDone
             /\ \E j \in 1..Len(maps.lines) : maps.lines[j].data = BufFaultKey )
           => ret.err = ErrNil /\ IsHexOf(ret.key, TrueKey) )

\* Extract has returned the key of a buffer whose other pointer cannot be
\* read
C29_Witness ==
    /\ pc = "returned"
    /\ ret.err = ErrNil
    /\ Len(maps.lines) = 1
    /\ maps.lines[1].data = BufFaultKey
    /\ findCandidatePointers(BufFaultKey) = <<AddrFault, AddrKey>>

\* C30: a point-read of the pipeline that comes back short or with an error
\* is tried again, up to 3 attempts in all: a candidate whose 32 bytes are
\* read in full at one of 3 attempts is held with these bytes after the
\* reads, and no entry holds fewer than 32 bytes
C30_ReadsAreRetried ==
    [][\A w \in Workers :
          (wk[w].pc = "reading" /\ wk'[w] # wk[w] /\ e.memFile # NilFile)
             => /\ \A i \in 1..Len(wk[w].candidates) :
                      (\E attempt \in 0..2 :
                          ReadAtRetry(proc.PID, wk[w].candidates[i], 32, attempt).n = 32)
                      => \E en \in wk'[w].keyDataMap :
                            en.addr = wk[w].candidates[i]
                /\ \A en \in wk'[w].keyDataMap : Len(en.data) = 32]_vars

\* the handle initMemoryFile leaves in e.memFile for this call
OpenFile == [open |-> TRUE, pid |-> proc.PID]

\* C31: a call of Extract that passed the offline test opens the memory file
\* once, in initMemoryFile, before the producer and the workers exist; from
\* then on e.memFile is that handle until the deferred closeMemoryFile, which
\* alone changes it again, and when Extract has returned e.memFile is nil
C31_OpenedOnceClosedOnReturn ==
    /\ [](pc = "returned" => e.memFile = NilFile)
    /\ [](pc \in {"spawn", "select", "deferCancel", "deferClose", "closing"}
             => e.memFile = OpenFile)
    /\ []((wk # << >> \/ prod # IdleProducer) => pc \notin {"start", "init"})
    /\ [][e'.memFile # e.memFile
             => \/ /\ pc = "init" /\ pc' = "spawn"
                   /\ e.memFile = NilFile /\ e'.memFile = OpenFile
                   /\ wk = << >> /\ prod = IdleProducer
                \/ /\ pc = "closing" /\ pc' = "returned"
                   /\ e.memFile = OpenFile /\ e'.memFile = NilFile]_vars

\* Extract opened the file, scanned, found the key and returned with the
\* handle closed and nil
C31_Witness ==
    /\ pc = "returned"
    /\ ScanRan
    /\ ret.err = ErrNil
    /\ e.currentPID = proc.PID
    /\ e.memFile = NilFile
    /\ e.memFileMutex = FreeMutex

\* the workers between RLock and RUnlock of batchReadMemory
Reading == {w \in Workers : wk[w].pc = "reading"}

\* C32: no point-read is made on a closed handle: the workers inside
\* batchReadMemory are the holders of the read lock, e.memFile does not
\* change while one of them is there, a handle that is not nil is open, and
\* a worker that finds e.memFile nil reads nothing and goes back to receive
C32_NoReadOnClosedHandle ==
    /\ [](e.memFileMutex.readers = Reading)
    /\ [](e.memFile # NilFile => e.memFile.open)
    /\ [][Reading # {} => e'.memFile = e.memFile]_vars
    /\ [][\A w \in Workers :
            (wk[w].pc = "reading" /\ wk'[w] # wk[w])
               => IF e.memFile = NilFile
                  THEN wk'[w] = FreshWorker
                  ELSE e.memFile.open /\ e'.memFile = e.memFile]_vars

\* Extract has returned and closed the file; a worker that was still
\* holding candidates has taken the read lock and will find the handle nil
C32_Witness ==
    /\ pc = "returned"
    /\ e.memFile = NilFile
    /\ \E w \in Workers :
          /\ wk[w].pc = "reading"
          /\ wk[w].candidates # << >>
          /\ w \in e.memFileMutex.readers
          /\ batchReadMemory(e.memFile, wk[w].candidates, 32) = {}

\* the workers that are working on the candidates c of a buffer they received
Holders(c) ==
    { w \in Workers : wk[w].pc \in {"read", "reading", "validate", "post"}
                      /\ wk[w].candidates = c }

\* the places of seq whose buffer has the candidates c
PlacesOf(seq, c) == { i \in 1..Len(seq) : findCandidatePointers(seq[i]) = c }

\* C33: a buffer the producer sent is received by one worker at most: the
\* workers holding the candidates of a buffer and the copies of it still in
\* memoryChannel are together no more than the times it was sent, and a
\* receive takes the buffer at the head out of the channel and hands it to
\* the one worker that makes the step
C33_OneReceiverPerBuffer ==
    /\ [](\A w \in Workers :
            Holders(wk[w].candidates) # {}
               => Cardinality(Holders(wk[w].candidates))
                    + Cardinality(PlacesOf(memoryChannel.buf, wk[w].candidates))
                  <= Cardinality(PlacesOf(SentInFileOrder, wk[w].candidates)))
    /\ [][\A w \in Workers :
            (wk[w].pc = "recv" /\ wk'[w].pc = "read")
               => /\ memoryChannel.buf # << >>
                  /\ memoryChannel'.buf = Tail(memoryChannel.buf)
                  /\ wk'[w].candidates
                        = findCandidatePointers(Head(memoryChannel.buf))
                  /\ \A v \in Workers \ {w} : wk'[v] = wk[v]]_vars

\* two buffers were sent and two workers hold one each
C33_Witness ==
    /\ Len(SentInFileOrder) = 2
    /\ memoryChannel.buf = << >>
    /\ \E w, v \in Workers :
          /\ w # v
          /\ wk[w].pc = "read" /\ wk[v].pc = "read"
          /\ wk[w].candidates = findCandidatePointers(SentInFileOrder[1])
          /\ wk[v].candidates = findCandidatePointers(SentInFileOrder[2])
          /\ wk[w].candidates # wk[v].candidates

\* C37: memoryChannel is closed once, by the producer as it returns, and
\* nothing is sent on it afterwards; resultChannel is closed once, when the
\* producer and every worker have returned, and nothing is sent on it
\* afterwards
C37_ChannelsClosedSafely ==
    /\ [](memoryChannel.closed <=> prod.pc = "done")
    /\ [](resultChannel.closed => AllDone)
    /\ [][/\ memoryChannel.closed => /\ memoryChannel'.closed
                                     /\ Len(memoryChannel'.buf)
                                           <= Len(memoryChannel.buf)
          /\ memoryChannel'.closed # memoryChannel.closed
                => prod.pc # "done" /\ prod'.pc = "done"
          /\ resultChannel.closed => /\ resultChannel'.closed
                                     /\ Len(resultChannel'.buf)
                                           <= Len(resultChannel.buf)
          /\ resultChannel'.closed # resultChannel.closed
                => AllDone /\ wk' = wk /\ prod' = prod]_vars

\* both channels are closed after a key went through resultChannel to Extract
C37_Witness ==
    /\ memoryChannel.closed
    /\ resultChannel.closed
    /\ resultChannel.buf = << >>
    /\ pc = "returned"
    /\ ret.err = ErrNil
    /\ ret.key # << >>
    /\ Cardinality(Workers) = 2

\* the class the pathname of a maps line stands for: heap, stack, anonymous
\* for none, mapped for any other
ClassOfPathname(pathname) ==
    IF pathname = PathHeap THEN "[heap]"
    ELSE IF pathname = PathStack THEN "[stack]"
    ELSE IF pathname = PathNone THEN "[anonymous]"
    ELSE "[mapped]"

\* C36: LoadVmmap gives the region of each line it keeps the class of the
\* line's pathname: [heap] heap, [stack] stack, none anonymous, any other
\* pathname mapped
C36_ClassifiedByPathname ==
    Enumerated =>
        LET kept == SelectSeq(maps.lines, Writable)
            regions == LoadVmmap(maps.lines)
        IN  /\ Len(regions) = Len(kept)
            /\ \A i \in 1..Len(kept) :
                  regions[i].RegionType = ClassOfPathname(kept[i].pathname)

----------------------------------------------------------------------------
(* SearchKey of the two variants of v4.go: lines 410-438, which sweeps the   *)
(* buffer with findCandidatePointers and validates with batchValidateKeys,   *)
(* and lines 767-809, which validates each match as the sweep comes to it.   *)

NoKey == [key |-> << >>, ok |-> FALSE]

\* batchValidateKeys: the keys it may return, "" included when it returns
\* that; the map is walked in an order Go leaves open, and the first entry
\* the validator accepts is returned
batchValidateKeys(ex, pg, candidates) ==
    IF Len(candidates) = 0 THEN {<< >>}
    ELSE LET keyDataMap == batchReadMemory(ex.memFile, candidates, 32)
             valid == { KeyOf(pg, entry.data) : entry \in keyDataMap } \ {<< >>}
         IN  IF valid = {} THEN {<< >>} ELSE valid

\* SearchKey of lines 410-438: the results [key, ok] it may return
SearchKey(ex, pg, memory) ==
    IF ex.currentPID = 0 THEN {NoKey}
    ELSE LET candidates == findCandidatePointers(memory)
         IN  IF Len(candidates) = 0 THEN {NoKey}
             ELSE { IF key # << >> THEN [key |-> key, ok |-> TRUE] ELSE NoKey :
                      key \in batchValidateKeys(ex, pg, candidates) }

\* readMemoryAtAddress of lines 641-694: what gdb dumped of the range into
\* the pipe, or an error when nothing came
readMemoryAtAddressGdb(pid, address, size) ==
    LET r == ReadAt(pid, address, size)
    IN  IF r.n = 0 THEN [data |-> << >>, err |-> ErrReadMemoryFailed]
        ELSE [data |-> r.data, err |-> ErrNil]

\* validateKey of lines 750-765
validateKeyGdb(pg, pid, ptrValue) ==
    LET got == readMemoryAtAddressGdb(pid, ptrValue, 32)
    IN  IF got.err # ErrNil THEN << >> ELSE KeyOf(pg, got.data)

\* SearchKey of lines 767-809; done: ctx is cancelled.  loop[index] is the
\* for loop entered with that index
SearchKeyGdb(ex, pg, done, memory) ==
    LET loop[index \in 0..Len(memory)] ==
            IF done THEN NoKey
            ELSE LET found == LastIndex(SubSeq(memory, 1, index), keyPattern)
                 IN  IF found = -1 \/ found - ptrSize < 0 THEN NoKey
                     ELSE LET ptrValue == littleEndianFunc(
                                   SubSeq(memory, found - ptrSize + 1, found))
                              key == IF PtrAccepted(ptrValue)
                                     THEN validateKeyGdb(pg, ex.currentPID, ptrValue)
                                     ELSE << >>
                          IN  IF key # << >> THEN [key |-> key, ok |-> TRUE]
                              ELSE loop[found - 1]
    IN  IF ex.currentPID = 0 THEN NoKey ELSE loop[Len(memory)]

\* buffers handed to SearchKey
SearchBuffers ==
    {BufKey, BufJunk, BufNone, BufMany, BufTwo, BufAbut, BufOverlap, BufShort,
     BufFaultKey, BufBounds, BufFlaky, << >>}

\* an extractor before Extract, during Extract, and after Extract returned
SearchExtractors ==
    { NewV4Extractor,
      [NewV4Extractor EXCEPT !.currentPID = 4242,
                             !.memFile = [open |-> TRUE, pid |-> 4242]],
      [NewV4Extractor EXCEPT !.currentPID = 4242] }

\* one buffer given to SearchKey of both variants, on the same extractor
\* state, page and target
SearchInit ==
    /\ sk \in [pc : {"call"}, memory : SearchBuffers,
                batched : {[done |-> FALSE, result |-> NoKey]},
                gdb : {[done |-> FALSE, result |-> NoKey]}]
    /\ e \in SearchExtractors
    /\ page \in Pages
    /\ ctxDone \in BOOLEAN
    /\ proc = [PID |-> 4242, Status |-> StatusOnline]
    /\ numCPU = 1
    /\ maps = [readable |-> FALSE, lines |-> << >>]
    /\ pc = "start"
    /\ ret = NoReturn
    /\ searchCancel = FALSE
    /\ memoryChannel = [buf |-> << >>, closed |-> FALSE]
    /\ resultChannel = [buf |-> << >>, closed |-> FALSE]
    /\ prod = IdleProducer
    /\ wk = << >>
    /\ tk = IdleTool
    /\ dk = IdleDump
    /\ cron = NewService

\* a call of SearchKey of lines 410-438
SearchKeyCall ==
    /\ sk.pc = "call"
    /\ ~sk.batched.done
    /\ \E result \in SearchKey(e, page, sk.memory) :
          sk' = [sk EXCEPT !.batched = [done |-> TRUE, result |-> result]]
    /\ UNCHANGED <<cron, dk, tk, proc, page, numCPU, maps, ctxDone, e, pc, ret,
                   searchCancel, memoryChannel, resultChannel, prod, wk>>

\* a call of SearchKey of lines 767-809
SearchKeyGdbCall ==
    /\ sk.pc = "call"
    /\ ~sk.gdb.done
    /\ sk' = [sk EXCEPT !.gdb = [done |-> TRUE,
                                 result |-> SearchKeyGdb(e, page, ctxDone, sk.memory)]]
    /\ UNCHANGED <<cron, dk, tk, proc, page, numCPU, maps, ctxDone, e, pc, ret,
                   searchCancel, memoryChannel, resultChannel, prod, wk>>

SearchSpec == SearchInit /\ [][SearchKeyCall \/ SearchKeyGdbCall]_vars

\* every pointer anchored in the buffer can be read in full by both variants
PointReadsSucceed ==
    /\ e.memFile = [open |-> TRUE, pid |-> e.currentPID]
    /\ \A ptr \in AnchoredPointers(sk.memory) :
          /\ readMemoryAtAddressUnsafe(e.memFile, ptr, 32).err = ErrNil
          /\ Len(readMemoryAtAddressGdb(e.currentPID, ptr, 32).data) = 32

\* C35: for the same buffer, page and target, with ctx not cancelled and
\* every point-read succeeding, SearchKey of the batched variant and
\* SearchKey of the unbatched variant return the same (key, found)
C35_VariantsAgree ==
    (sk.batched.done /\ sk.gdb.done /\ ~ctxDone /\ PointReadsSucceed)
       => sk.batched.result = sk.gdb.result

----------------------------------------------------------------------------
(* One extractor used for a second call of Extract, on another process,    *)
(* after the first call has returned.  The goroutines in prod and wk are    *)
(* those of the first call; the second call is followed through             *)
(* initMemoryFile.                                                          *)

FirstPID == 4242
SecondPID == 4343

\* Extract is called again on the extractor, for the process SecondPID
ExtractAgain ==
    /\ pc = "returned"
    /\ proc.PID = FirstPID
    /\ wk # << >>
    /\ proc' = [PID |-> SecondPID, Status |-> StatusOnline]
    /\ pc' = "start"
    /\ ret' = NoReturn
    /\ UNCHANGED <<cron, sk, dk, tk, page, numCPU, maps, ctxDone, e, searchCancel,
                   memoryChannel, resultChannel, prod, wk>>

\* lines 53-98 of the first call
FirstSpawn == proc.PID = FirstPID /\ ExtractSpawn

ReuseNext ==
    \/ Cancel
    \/ ExtractBegin
    \/ ExtractInit
    \/ FirstSpawn
    \/ ExtractSelect
    \/ ExtractDeferCancel
    \/ ExtractDeferLock
    \/ ExtractDeferClose
    \/ ProducerStart
    \/ ProducerLoop
    \/ ProducerSend
    \/ WorkerSelect
    \/ WorkerRLock
    \/ WorkerRead
    \/ WorkerValidate
    \/ WorkerPost
    \/ Closer
    \/ ExtractAgain

ReuseSpec == ScanInit(SweepFiles) /\ [][ReuseNext]_vars

\* C34: a point-read made by a worker goes to the memory file of the
\* process its own call of Extract was made for, and at that time the
\* extractor's pid is that call's pid; here every worker belongs to the
\* call for FirstPID
C34_ReadsStayWithTheirCall ==
    [][\A w \in Workers :
          (wk[w].pc = "reading" /\ wk'[w] # wk[w] /\ e.memFile # NilFile)
             => e.memFile.pid = FirstPID /\ e.currentPID = FirstPID]_vars

----------------------------------------------------------------------------
(* The testkey tools: src/unnamed/part_001 (Linux, OpenSSL) and            *)
(* src/unnamed/part_000 (macOS, CommonCrypto).  SHA-512 is not computed:   *)
(* a derived key and a MAC are the terms of what they were made from, so   *)
(* two of them are equal exactly when they were made the same way.  A page *)
(* is its first 4032 bytes and the MAC that takes its last 64.             *)

V4_PAGE_SIZE == 4096
KEY_SIZE == 32
SALT_SIZE == 16
HMAC_SHA512_SIZE == 64
IV_SIZE == 16
AES_BLOCK_SIZE == 16
V4_ITER_COUNT == 256000

\* a ^ b for two bytes
Xor(a, b) ==
    LET bits[i \in 0..8] ==
            IF i = 8 THEN 0
            ELSE (((a \div (2 ^ i)) + (b \div (2 ^ i))) % 2) * (2 ^ i) + bits[i + 1]
    IN  bits[0]

\* PKCS5_PBKDF2_HMAC(..., EVP_sha512(), ...) and CCKeyDerivationPBKDF(kCCPBKDF2,
\* ..., kCCPRFHmacAlgSHA512, ...)
pbkdf2_sha512(password, salt, iterations, key_len) ==
    [fn |-> "PBKDF2-HMAC-SHA512", password |-> password, salt |-> salt,
     iterations |-> iterations, key_len |-> key_len]

\* HMAC(EVP_sha512(), key, data) and CCHmacInit/Update/Final
HMAC(key, data) == [fn |-> "HMAC-SHA512", key |-> key, data |-> data]

\* the n bytes of page from offset from on; bytes that run into the MAC
\* without being the MAC are marked
PageBytes(pg, from, n) ==
    IF from >= 0 /\ n >= 0 /\ from + n <= Len(pg.data)
    THEN SubSeq(pg.data, from + 1, from + n)
    ELSE <<-1, from, n>>

\* the HMAC_SHA512_SIZE bytes of page at offset from
PageMac(pg, from) ==
    IF from = Len(pg.data) THEN pg.mac ELSE [fn |-> "misaligned"]

\* memcmp(a, b, HMAC_SHA512_SIZE) == 0 for two values of that size
SameMac(a, b) == a.fn = b.fn /\ a = b

\* a slip: the reserve is padded by a block whether or not it is aligned
ReservePadded ==
    (((IV_SIZE + HMAC_SHA512_SIZE) \div AES_BLOCK_SIZE) + 1) * AES_BLOCK_SIZE

\* reserve and data_end, steps 5 and 6 of testkey_v4
Reserve ==
    IF (IV_SIZE + HMAC_SHA512_SIZE) % AES_BLOCK_SIZE # 0
    THEN (((IV_SIZE + HMAC_SHA512_SIZE) \div AES_BLOCK_SIZE) + 1) * AES_BLOCK_SIZE
    ELSE IV_SIZE + HMAC_SHA512_SIZE

\* a slip: the IV is not added back
DataEndNoIV == V4_PAGE_SIZE - Reserve

DataEnd == V4_PAGE_SIZE - Reserve + IV_SIZE

\* testkey_v4 of either tool.  call: [tool, pageNull, keyNull, page, key,
\* crypto, alloc]; crypto: the library's key derivation succeeds; alloc:
\* malloc succeeds (Linux tool only)
testkey_v4(call) ==
    IF call.pageNull \/ call.keyNull THEN FALSE
    ELSE IF ~call.crypto THEN FALSE
    ELSE LET salt == PageBytes(call.page, 0, SALT_SIZE)
             enc_key == pbkdf2_sha512(SubSeq(call.key, 1, KEY_SIZE), salt,
                                      V4_ITER_COUNT, KEY_SIZE)
             mac_salt == [i \in 1..SALT_SIZE |-> Xor(salt[i], 58)]
             mac_key == pbkdf2_sha512(enc_key, mac_salt, 2, KEY_SIZE)
             page_no == <<1, 0, 0, 0>>
             hmac_data == PageBytes(call.page, SALT_SIZE, DataEnd - SALT_SIZE)
                          \o page_no
             calculated_hmac == HMAC(mac_key, hmac_data)
             stored_hmac == PageMac(call.page, DataEnd)
         IN  IF call.tool = "linux" /\ ~call.alloc THEN FALSE
             ELSE SameMac(calculated_hmac, stored_hmac)

\* the ranges [from, to) of page that a call of testkey_v4 reads: the salt
\* (memcpy, step 1), the bytes under the MAC (memcpy or CCHmacUpdate, step
\* 8) and the stored MAC (memcmp, step 12)
testkey_v4_reads(call) ==
    IF call.pageNull \/ call.keyNull THEN {}
    ELSE IF ~call.crypto THEN {<<0, SALT_SIZE>>}
    ELSE IF call.tool = "linux" /\ ~call.alloc THEN {<<0, SALT_SIZE>>}
    ELSE {<<0, SALT_SIZE>>, <<SALT_SIZE, SALT_SIZE + (DataEnd - SALT_SIZE)>>,
          <<DataEnd, DataEnd + HMAC_SHA512_SIZE>>}

\* the MAC a writer puts at the end of a page with bytes data, for the key
\* k0: derivation with iter rounds, MAC salt the salt xor-ed with xorByte,
\* MAC over the bytes from offset from on and the page number
MacWith(k0, data, iter, xorByte, from, pageNo) ==
    HMAC(pbkdf2_sha512(pbkdf2_sha512(k0, SubSeq(data, 1, 16), iter, 32),
                       [i \in 1..16 |-> Xor(data[i], xorByte)], 2, 32),
         SubSeq(data, from + 1, 4032) \o <<pageNo, 0, 0, 0>>)

TestKeys == {TrueKey, JunkKey, Zeros(32)}

\* the first 4032 bytes of a page: a salt, zero or not, and what follows
TestData ==
    { [i \in 1..4032 |-> IF i <= 16 THEN (i * z) % 256 ELSE (i * 7) % 256] :
        z \in {0, 11} }

\* pages written as the format says, pages whose MAC was made some other
\* way (64000 rounds, no xor of the salt, the salt under the MAC, page
\* number 2), and pages that end in bytes that are no MAC
TestPages ==
    { [data |-> d, mac |-> MacWith(k0, d, v[1], v[2], v[3], v[4])] :
        d \in TestData, k0 \in TestKeys,
        v \in { <<256000, 58, 16, 1>>, <<64000, 58, 16, 1>>,
                 <<256000, 0, 16, 1>>, <<256000, 58, 0, 1>>,
                 <<256000, 58, 16, 2>> } }
    \cup { [data |-> d, mac |-> [fn |-> "bytes"]] : d \in TestData }

\* a call of testkey_v4 of either tool
TestkeyInit ==
    /\ tk \in [pc : {"call"}, tool : {"linux", "darwin"},
                pageNull : BOOLEAN, keyNull : BOOLEAN,
                page : TestPages, key : TestKeys,
                crypto : BOOLEAN, alloc : BOOLEAN, result : {FALSE},
                reserve : {0}, data_end : {0}, reads : {{}}]
    /\ dk = IdleDump
    /\ sk = IdleSearch
    /\ cron = NewService
    /\ proc = [PID |-> 4242, Status |-> StatusOffline]
    /\ page = [saltZero |-> FALSE, key |-> TrueKey]
    /\ numCPU = 1
    /\ maps = [readable |-> FALSE, lines |-> << >>]
    /\ ctxDone = FALSE
    /\ e = NewV4Extractor
    /\ pc = "start"
    /\ ret = NoReturn
    /\ searchCancel = FALSE
    /\ memoryChannel = [buf |-> << >>, closed |-> FALSE]
    /\ resultChannel = [buf |-> << >>, closed |-> FALSE]
    /\ prod = IdleProducer
    /\ wk = << >>

TestkeyCall ==
    /\ tk.pc = "call"
    /\ tk' = [tk EXCEPT !.pc = "done", !.result = testkey_v4(tk),
                         !.reserve = IF tk.pageNull \/ tk.keyNull \/ ~tk.crypto
                                     THEN 0 ELSE Reserve,
                         !.data_end = IF tk.pageNull \/ tk.keyNull \/ ~tk.crypto
                                      THEN 0 ELSE DataEnd,
                         !.reads = testkey_v4_reads(tk)]
    /\ UNCHANGED <<cron, sk, dk, proc, page, numCPU, maps, ctxDone, e, pc, ret,
                   searchCancel, memoryChannel, resultChannel, prod, wk>>

TestkeySpec == TestkeyInit /\ [][TestkeyCall]_vars

\* the tool was handed a page and a key, and its libraries did their work
CallCompleted ==
    /\ tk.pc = "done"
    /\ ~tk.pageNull /\ ~tk.keyNull
    /\ tk.crypto
    /\ tk.tool = "linux" => tk.alloc

\* C20: testkey_v4 returns true exactly when HMAC-SHA512, under the key
\* derived from the candidate with 256000 rounds of PBKDF2 and then 2 rounds
\* with the salt xor 0x3A, over bytes 16 to 4031 of the page followed by a
\* little-endian 1, equals bytes 4032 to 4095 of the page
C20_ValidatesExactlyThePageKey ==
    CallCompleted =>
        (tk.result <=>
            (tk.page.mac = MacWith(tk.key, tk.page.data, 256000, 58, 16, 1)))

\* the key the page was written with was accepted, for a page whose salt is
\* not zero
C20_Witness ==
    /\ CallCompleted
    /\ tk.result
    /\ tk.key = TrueKey
    /\ tk.page.data[1] # 0
    /\ tk.page.mac = MacWith(TrueKey, tk.page.data, 256000, 58, 16, 1)

\* the call got to steps 5 and 6, where reserve and data_end are computed
LayoutComputed == tk.pc = "done" /\ ~tk.pageNull /\ ~tk.keyNull /\ tk.crypto

\* C21: testkey_v4 computes reserve = 80 and data_end = 4032; the stored MAC
\* is read at [4032, 4096), which ends with the page, the bytes under the MAC
\* at [16, 4032), and no read leaves the 4096 bytes of the page
C21_LayoutConstants ==
    /\ LayoutComputed => tk.reserve = 80 /\ tk.data_end = 4032
    /\ CallCompleted =>
          /\ <<4032, 4096>> \in tk.reads
          /\ <<16, 4032>> \in tk.reads
    /\ tk.pc = "done" =>
          \A r \in tk.reads : 0 <= r[1] /\ r[1] <= r[2] /\ r[2] <= 4096

\* a call of either tool that read the stored MAC
C21_Witness ==
    /\ CallCompleted
    /\ tk.reserve = 80
    /\ tk.data_end = 4032
    /\ <<tk.data_end, 4096>> \in tk.reads

----------------------------------------------------------------------------
(* dumpkey of the Linux tool (src/unnamed/part_001, lines 182-318): attach  *)
(* to the target, walk /proc/<pid>/maps, hand regions to                    *)
(* search_memory_region, detach.  A maps line is [parsed, perms, pathname,  *)
(* size, ok, data]: parsed says sscanf found the three fields, ok that      *)
(* process_vm_readv reads the range, data what the range holds.             *)

RegionLimit == 104857600
MaxDumpLines == 2

\* the first page of the database, written with TrueKey
DumpPage ==
    LET data == [i \in 1..4032 |-> IF i <= 16 THEN (i * 11) % 256 ELSE (i * 7) % 256]
    IN  [data |-> data, mac |-> MacWith(TrueKey, data, 256000, 58, 16, 1)]

\* search_memory_region: [rc, outkey]; scan[i] is the outer loop from offset
\* i on, try[i][j] the inner loop from the j-th offset on
search_memory_region(region, pg, alloc) ==
    LET buffer == region.data
        pattern == <<32, 102, 116, 115, 53, 40, 37, 0>>
        offsets == <<16, -80, 64, -16, 32, -32>>
        region_size == Len(buffer)
        tested(key_offset) ==
            testkey_v4([tool |-> "linux", pageNull |-> FALSE, keyNull |-> FALSE,
                        page |-> pg, crypto |-> TRUE, alloc |-> alloc,
                        key |-> SubSeq(buffer, key_offset + 1, key_offset + KEY_SIZE)])
        try[i \in 0..region_size, j \in 1..(Len(offsets) + 1)] ==
            IF j > Len(offsets) THEN -1
            ELSE LET key_offset == i + offsets[j]
                 IN  IF key_offset < 0 \/ key_offset + KEY_SIZE > region_size
                     THEN try[i, j + 1]
                     ELSE IF tested(key_offset) THEN key_offset
                     ELSE try[i, j + 1]
        scan[i \in 0..region_size] ==
            IF i > region_size - Len(pattern) THEN -1
            ELSE IF OccursAt(buffer, pattern, i) /\ try[i, 1] # -1
                 THEN try[i, 1]
            ELSE scan[i + 1]
    IN  IF region.size > RegionLimit THEN [rc |-> -1, outkey |-> << >>]
        ELSE IF ~alloc THEN [rc |-> -1, outkey |-> << >>]
        ELSE IF ~region.ok THEN [rc |-> -1, outkey |-> << >>]
        ELSE IF region_size < Len(pattern) \/ scan[0] = -1
             THEN [rc |-> -1, outkey |-> << >>]
        ELSE [rc |-> 0,
              outkey |-> EncodeToString(SubSeq(buffer, scan[0] + 1, scan[0] + KEY_SIZE))]

\* region contents: the key 16 bytes behind the start of the pattern, the key
\* 32 bytes before it, other bytes at these offsets, and no pattern
DumpBuffers ==
    LET fts == <<32, 102, 116, 115, 53, 40, 37, 0>>
    IN  { <<7>> \o fts \o Zeros(8) \o TrueKey \o <<9>>,
          TrueKey \o fts,
          JunkKey \o fts \o Zeros(8) \o JunkKey,
          Zeros(40) }

DumpMappings ==
    { [parsed |-> TRUE, perms |-> p, pathname |-> n, size |-> z, ok |-> TRUE,
       data |-> d] :
        p \in {rw, ro}, n \in {PathHeap, PathNone, PathStack},
        z \in {4096}, d \in DumpBuffers }
    \cup { [parsed |-> TRUE, perms |-> rw, pathname |-> PathNone,
            size |-> RegionLimit + 4096, ok |-> TRUE,
            data |-> TrueKey \o <<32, 102, 116, 115, 53, 40, 37, 0>>],
           [parsed |-> TRUE, perms |-> rw, pathname |-> PathNone,
            size |-> 4096, ok |-> FALSE,
            data |-> TrueKey \o <<32, 102, 116, 115, 53, 40, 37, 0>>],
           [parsed |-> FALSE, perms |-> rw, pathname |-> PathNone,
            size |-> 4096, ok |-> TRUE,
            data |-> TrueKey \o <<32, 102, 116, 115, 53, 40, 37, 0>>] }

DumpFiles ==
    UNION { [1..n -> DumpMappings] : n \in 0..MaxDumpLines }

\* a call of dumpkey; dbRead: the first page is read in full; attachOk:
\* PTRACE_ATTACH succeeds; mapsOpen: fopen of the maps file succeeds; alloc:
\* malloc succeeds
DumpInit ==
    /\ dk \in [pc : {"call"}, dbRead : BOOLEAN, attachOk : BOOLEAN,
                mapsOpen : BOOLEAN, alloc : {TRUE}, lines : DumpFiles, i : {0},
                attached : {FALSE}, attaches : {0}, detaches : {0},
                searched : {{}}, rc : {0}, outkey : {<< >>}]
    /\ sk = IdleSearch
    /\ cron = NewService
    /\ tk = IdleTool
    /\ proc = [PID |-> 4242, Status |-> StatusOffline]
    /\ page = [saltZero |-> FALSE, key |-> TrueKey]
    /\ numCPU = 1
    /\ maps = [readable |-> FALSE, lines |-> << >>]
    /\ ctxDone = FALSE
    /\ e = NewV4Extractor
    /\ pc = "start"
    /\ ret = NoReturn
    /\ searchCancel = FALSE
    /\ memoryChannel = [buf |-> << >>, closed |-> FALSE]
    /\ resultChannel = [buf |-> << >>, closed |-> FALSE]
    /\ prod = IdleProducer
    /\ wk = << >>

\* lines 249-285: the first page, PTRACE_ATTACH, waitpid, fopen of the maps
\* file
DumpBegin ==
    /\ dk.pc = "call"
    /\ dk' = IF ~dk.dbRead THEN [dk EXCEPT !.pc = "returned", !.rc = -1]
             ELSE IF ~dk.attachOk THEN [dk EXCEPT !.pc = "returned", !.rc = -1]
             ELSE IF ~dk.mapsOpen
                  THEN [dk EXCEPT !.pc = "returned", !.rc = -1,
                                  !.attaches = @ + 1, !.detaches = @ + 1]
             ELSE [dk EXCEPT !.pc = "loop", !.i = 1, !.attached = TRUE,
                             !.attaches = @ + 1]
    /\ UNCHANGED <<cron, sk, tk, proc, page, numCPU, maps, ctxDone, e, pc, ret,
                   searchCancel, memoryChannel, resultChannel, prod, wk>>

\* a slip: the return with the key leaves the target attached
DumpLineNoDetach ==
    /\ dk.pc = "loop"
    /\ dk.i <= Len(dk.lines)
    /\ LET line == dk.lines[dk.i]
           next == [dk EXCEPT !.i = @ + 1]
       IN  dk' =
             IF ~line.parsed THEN next
             ELSE IF Contains(line.pathname, PathHeap) THEN next
             ELSE IF line.perms[1] = "r" /\ line.perms[2] = "w"
                  THEN LET got == search_memory_region(line, DumpPage, dk.alloc)
                       IN  IF got.rc = 0
                           THEN [dk EXCEPT !.pc = "returned", !.rc = 0,
                                           !.outkey = got.outkey,
                                           !.searched = @ \cup {dk.i}]
                           ELSE [next EXCEPT !.searched = @ \cup {dk.i}]
             ELSE next
    /\ UNCHANGED <<cron, sk, tk, proc, page, numCPU, maps, ctxDone, e, pc, ret,
                   searchCancel, memoryChannel, resultChannel, prod, wk>>

\* lines 288-313: one turn of the while loop, on line dk.i
DumpLine ==
    /\ dk.pc = "loop"
    /\ dk.i <= Len(dk.lines)
    /\ LET line == dk.lines[dk.i]
           heap_start == FALSE
           next == [dk EXCEPT !.i = @ + 1]
       IN  dk' =
             IF ~line.parsed THEN next
             ELSE IF Contains(line.pathname, PathHeap) THEN next
             ELSE IF heap_start /\ Contains(line.pathname, <<"[">>)
                  THEN [dk EXCEPT !.pc = "end"]
             ELSE IF line.perms[1] = "r" /\ line.perms[2] = "w"
                  THEN LET got == search_memory_region(line, DumpPage, dk.alloc)
                       IN  IF got.rc = 0
                           THEN [dk EXCEPT !.pc = "returned", !.rc = 0,
                                           !.outkey = got.outkey,
                                           !.searched = @ \cup {dk.i},
                                           !.attached = FALSE,
                                           !.detaches = @ + 1]
                           ELSE [next EXCEPT !.searched = @ \cup {dk.i}]
             ELSE next
    /\ UNCHANGED <<cron, sk, tk, proc, page, numCPU, maps, ctxDone, e, pc, ret,
                   searchCancel, memoryChannel, resultChannel, prod, wk>>

\* lines 315-317: fgets found no further line, or the loop was left
DumpEnd ==
    /\ \/ dk.pc = "loop" /\ dk.i > Len(dk.lines)
       \/ dk.pc = "end"
    /\ dk' = [dk EXCEPT !.pc = "returned", !.rc = -1, !.attached = FALSE,
                        !.detaches = @ + 1]
    /\ UNCHANGED <<cron, sk, tk, proc, page, numCPU, maps, ctxDone, e, pc, ret,
                   searchCancel, memoryChannel, resultChannel, prod, wk>>

DumpSpec == DumpInit /\ [][DumpBegin \/ DumpLine \/ DumpEnd]_vars

\* dumpkey attached and opened the maps file
DumpWalked == dk.pc = "returned" /\ dk.dbRead /\ dk.attachOk /\ dk.mapsOpen

\* the lines tagged [heap] whose permissions start with rw
HeapLines ==
    { i \in 1..Len(dk.lines) :
        /\ dk.lines[i].parsed
        /\ dk.lines[i].pathname = PathHeap
        /\ dk.lines[i].perms[1] = "r" /\ dk.lines[i].perms[2] = "w" }

\* C38: dumpkey passes the readable and writable [heap] line to
\* search_memory_region, so that a key that lies in the heap at one of the
\* tabled offsets from the pattern is found and returned in hexadecimal
C38_HeapIsSearched ==
    DumpWalked =>
        /\ dk.rc # 0 => HeapLines \subseteq dk.searched
        /\ (\E i \in HeapLines :
               search_memory_region(dk.lines[i], DumpPage, dk.alloc).rc = 0)
              => /\ dk.rc = 0
                 /\ dk.outkey = EncodeToString(TrueKey)

\* C39: once PTRACE_ATTACH has succeeded, dumpkey returns with
\* PTRACE_DETACH called exactly once, whichever way it returns: the maps
\* file not opened, a key found, the lines exhausted; it never detaches
\* without having attached
C39_DetachedOnEveryReturn ==
    /\ dk.pc = "returned" /\ dk.attaches = 1
          => dk.detaches = 1 /\ ~dk.attached
    /\ dk.pc \in {"loop", "end"}
          => dk.attached /\ dk.attaches = 1 /\ dk.detaches = 0
    /\ dk.detaches <= dk.attaches
    /\ dk.attaches <= 1

\* a key was found in the second region and dumpkey returned detached
C39_Witness ==
    /\ dk.pc = "returned"
    /\ dk.rc = 0
    /\ dk.outkey = EncodeToString(TrueKey)
    /\ dk.searched = {1, 2}
    /\ dk.attaches = 1
    /\ dk.detaches = 1

----------------------------------------------------------------------------
(* The cron service (src/unnamed/part_002).  cron.entries are the ids of    *)
(* the entries the cron.Cron holds, given out from 1 upwards by AddFunc,    *)
(* which returns id 0 and an error for an expression it cannot parse.       *)

MaxConfigs == 2
MaxEntries == 4

\* the Cron fields of config.json, each a valid expression or not
CronConfigs ==
    UNION { [1..n -> BOOLEAN] : n \in 0..MaxConfigs }

\* addCronTask for a config whose expression is valid or not
addCronTask(s, valid) ==
    LET entryID == IF valid THEN s.nextID + 1 ELSE 0
        err == IF valid THEN ErrNil ELSE "bad cron expression"
        added == IF valid
                 THEN [s EXCEPT !.entries = @ \cup {entryID}, !.nextID = entryID]
                 ELSE s
        recorded == IF err # ErrNil
                    THEN [added EXCEPT !.entryIDs = Append(@, entryID)]
                    ELSE added
    IN  [recorded EXCEPT !.running = TRUE]

\* the state after addCronTask for each of the configs from the k-th on
RECURSIVE AddAll(_, _, _)
AddAll(s, configs, k) ==
    IF k > Len(configs) THEN s
    ELSE AddAll(addCronTask(s, configs[k]), configs, k + 1)

\* Start; read: config.json is there, is read and is parsed
Start ==
    /\ \E read \in BOOLEAN, configs \in CronConfigs :
          /\ cron.nextID + Len(configs) <= MaxEntries
          /\ Len(cron.entryIDs) + Len(configs) <= MaxEntries
          /\ cron' = IF ~read THEN [cron EXCEPT !.stopped = FALSE]
                     ELSE [AddAll(cron, configs, 1) EXCEPT !.stopped = FALSE]
    /\ UNCHANGED <<sk, dk, tk, proc, page, numCPU, maps, ctxDone, e, pc, ret,
                   searchCancel, memoryChannel, resultChannel, prod, wk>>

\* Stop: Remove for each recorded id
Stop ==
    /\ cron' = [cron EXCEPT
                  !.entries = @ \ { cron.entryIDs[i] : i \in 1..Len(cron.entryIDs) },
                  !.stopped = TRUE]
    /\ UNCHANGED <<sk, dk, tk, proc, page, numCPU, maps, ctxDone, e, pc, ret,
                   searchCancel, memoryChannel, resultChannel, prod, wk>>

\* the running cron.Cron calls the function of one of its entries
CronFire ==
    /\ cron.running
    /\ \E id \in cron.entries : cron' = [cron EXCEPT !.fired = @ \cup {id}]
    /\ UNCHANGED <<sk, dk, tk, proc, page, numCPU, maps, ctxDone, e, pc, ret,
                   searchCancel, memoryChannel, resultChannel, prod, wk>>

CronInit ==
    /\ cron = NewService
    /\ sk = IdleSearch
    /\ dk = IdleDump
    /\ tk = IdleTool
    /\ proc = [PID |-> 4242, Status |-> StatusOffline]
    /\ page = [saltZero |-> FALSE, key |-> TrueKey]
    /\ numCPU = 1
    /\ maps = [readable |-> FALSE, lines |-> << >>]
    /\ ctxDone = FALSE
    /\ e = NewV4Extractor
    /\ pc = "start"
    /\ ret = NoReturn
    /\ searchCancel = FALSE
    /\ memoryChannel = [buf |-> << >>, closed |-> FALSE]
    /\ resultChannel = [buf |-> << >>, closed |-> FALSE]
    /\ prod = IdleProducer
    /\ wk = << >>

CronSpec == CronInit /\ [][Start \/ Stop \/ CronFire]_vars

====
